---- MODULE Spec2Model ----
(***************************************************************************)
(* A model of prioq's PriorityQueue (src/prioq/base.py): a binary heap of  *)
(* items kept in a Python list, where an item is the value itself, a       *)
(* (key(value), value) tuple, or one of these wrapped in a reverser        *)
(* (src/prioq/reversing.py), together with the heapq routines the queue    *)
(* calls on that list.                                                     *)
(***************************************************************************)
EXTENDS Integers, Sequences, FiniteSets

\* ------------------------------------------------------------------ bounds

\* largest number of values a queue of the model holds
MaxLen == 3

\* largest number of values of a queue that is an operand of the model
MaxOperandLen == 2

\* largest number of values of a queue built to be evaluated against another
MaxOtherLen == 1

\* largest number of SimpleReversers around an item that the model follows
MaxReversers == 1

\* values are the integers -MaxVal..MaxVal
MaxVal == 1

Values == (0 - MaxVal)..MaxVal

\* the key argument of the constructor: None, or the function abs
Keys == {"None", "abs"}

\* ------------------------------------------------------- python primitives

\* the built-in abs, used as the queue's key function
abs(v) == IF v < 0 THEN 0 - v ELSE v

\* all lists of elements of S with at most n elements
ListsUpTo(S, n) == UNION {[1..m -> S] : m \in 0..n}

\* `<` on tuples gone wrong: the first elements alone are compared
tuple_lt_on_first(a, b) == a[1] < b[1]

\* Python's `<` on two tuples of two integers: lexicographic
tuple_lt(a, b) == \/ a[1] < b[1]
                  \/ a[1] = b[1] /\ a[2] < b[2]

\* Python's `<` on what _value_to_item puts in an item: the value itself when
\* there is no key, the tuple (key(value), value) when there is one
raw_lt(key, a, b) == IF key = "None" THEN a < b ELSE tuple_lt(a, b)

\* 0-based indexing of a Python list
At(list, pos) == list[pos + 1]

SetAt(list, pos, x) == [list EXCEPT ![pos + 1] = x]

\* the list without the element at 0-based position pos
DelAt(list, pos) == SubSeq(list, 1, pos) \o SubSeq(list, pos + 2, Len(list))

\* ------------------------------------------------------------------ items

\* the sorting key of a value: key(value), the value itself without a key
key_of(key, value) == IF key = "None" THEN value ELSE abs(value)

to_item(key, value) == <<key_of(key, value), value>>

SimpleReverser(item) == [item |-> item]

ComplexReverser(item) == [item |-> item]

to_complex_reverser(key, value) == ComplexReverser(to_item(key, value))

\* PriorityQueue._value_to_item, as __init__ chooses it
value_to_item(key, reverse, value) ==
    IF reverse
    THEN IF key = "None" THEN SimpleReverser(value)
                         ELSE to_complex_reverser(key, value)
    ELSE IF key = "None" THEN value
                         ELSE to_item(key, value)

\* PriorityQueue._item_to_value, as __init__ chooses it
item_to_value(key, reverse, item) ==
    IF reverse
    THEN IF key = "None" THEN item.item ELSE item.item[2]
    ELSE IF key = "None" THEN item ELSE item[2]

\* `a < b` on two items of one queue: the reversers' __lt__ is `>` on what
\* they wrap, a bare item compares as Python compares it
item_lt(key, reverse, a, b) ==
    IF reverse THEN raw_lt(key, b.item, a.item)
               ELSE raw_lt(key, a, b)

\* `a == b` on two items of one queue (the reversers' __eq__ compares what
\* they wrap)
item_eq(a, b) == a = b

\* ------------------------------------------------------------------ heapq

RECURSIVE siftdown_loop(_, _, _, _, _, _)
\* the while loop of heapq._siftdown: move newitem up from pos while it is
\* less than its parent, never above startpos
siftdown_loop(key, reverse, heap, startpos, pos, newitem) ==
    IF pos > startpos
    THEN LET parentpos == (pos - 1) \div 2
             parent == At(heap, parentpos)
         IN IF item_lt(key, reverse, newitem, parent)
            THEN siftdown_loop(key, reverse, SetAt(heap, pos, parent),
                               startpos, parentpos, newitem)
            ELSE SetAt(heap, pos, newitem)
    ELSE SetAt(heap, pos, newitem)

siftdown(key, reverse, heap, startpos, pos) ==
    siftdown_loop(key, reverse, heap, startpos, pos, At(heap, pos))

RECURSIVE siftup_loop(_, _, _, _, _, _)
\* the while loop of heapq._siftup: bubble the smaller child up until a leaf
\* is reached, then sift newitem down from there to its place
siftup_loop(key, reverse, heap, startpos, pos, newitem) ==
    LET endpos == Len(heap)
        leftpos == 2 * pos + 1
        rightpos == leftpos + 1
        childpos == IF /\ rightpos < endpos
                       /\ ~item_lt(key, reverse, At(heap, leftpos),
                                   At(heap, rightpos))
                    THEN rightpos
                    ELSE leftpos
    IN IF leftpos < endpos
       THEN siftup_loop(key, reverse, SetAt(heap, pos, At(heap, childpos)),
                        startpos, childpos, newitem)
       ELSE siftdown(key, reverse, SetAt(heap, pos, newitem), startpos, pos)

siftup(key, reverse, heap, pos) ==
    siftup_loop(key, reverse, heap, pos, pos, At(heap, pos))

RECURSIVE heapify_from(_, _, _, _)
\* heapq.heapify's loop `for i in reversed(range(n // 2)): _siftup(x, i)`,
\* from position i down to 0
heapify_from(key, reverse, x, i) ==
    IF i < 0 THEN x
    ELSE heapify_from(key, reverse, siftup(key, reverse, x, i), i - 1)

heapify(key, reverse, x) == heapify_from(key, reverse, x, (Len(x) \div 2) - 1)

\* heapq.heappush: append, then sift the new item down from the end
heappush(key, reverse, heap, item) ==
    siftdown(key, reverse, Append(heap, item), 0, Len(heap))

\* the list heapq.heappop leaves: the last item takes the root's place and
\* is sifted; an empty list stays as it is (list.pop raises IndexError)
heappop_heap(key, reverse, heap) ==
    IF Len(heap) = 0 THEN heap
    ELSE LET lastelt == heap[Len(heap)]
             rest == SubSeq(heap, 1, Len(heap) - 1)
         IN IF Len(rest) > 0
            THEN siftup(key, reverse, SetAt(rest, 0, lastelt), 0)
            ELSE rest

\* the item heapq.heappop returns from a non-empty list
heappop_item(heap) == IF Len(heap) > 1 THEN At(heap, 0) ELSE heap[Len(heap)]

\* the exception heapq.heappop raises
heappop_raises(heap) == IF Len(heap) = 0 THEN "IndexError" ELSE "None"

\* ------------------------------------------------------- list operations

RECURSIVE insert_sorted(_, _, _, _)
\* xs with x inserted after every element it is not less than (a stable
\* insertion: x moves left only past elements it is less than)
insert_sorted(key, reverse, xs, x) ==
    IF xs # <<>> /\ item_lt(key, reverse, x, xs[Len(xs)])
    THEN Append(insert_sorted(key, reverse, SubSeq(xs, 1, Len(xs) - 1), x),
                xs[Len(xs)])
    ELSE Append(xs, x)

RECURSIVE sorted(_, _, _)
\* the built-in sorted on a list of items: a stable sort by the items' `<`
sorted(key, reverse, xs) ==
    IF xs = <<>> THEN <<>>
    ELSE insert_sorted(key, reverse,
                       sorted(key, reverse, SubSeq(xs, 1, Len(xs) - 1)),
                       xs[Len(xs)])

\* list.index: the 0-based position of the first element equal to x, or -1
list_index(list, x) ==
    IF \E i \in 1..Len(list) : item_eq(list[i], x)
    THEN (CHOOSE i \in 1..Len(list) :
              /\ item_eq(list[i], x)
              /\ \A j \in 1..(i - 1) : ~item_eq(list[j], x)) - 1
    ELSE 0 - 1

\* list.remove gone wrong: a missing element's position -1 is used as an
\* index, which deletes the last element
list_remove_at_minus_one(list, x) ==
    IF list_index(list, x) < 0
    THEN SubSeq(list, 1, Len(list) - 1)
    ELSE DelAt(list, list_index(list, x))

\* list.remove gone wrong: every element equal to x is deleted
list_remove_every(list, x) == SelectSeq(list, LAMBDA y : ~item_eq(y, x))

\* the list that list.remove(x) leaves: the first element equal to x is
\* deleted; without one the list stays as it is (ValueError is raised)
list_remove(list, x) ==
    IF list_index(list, x) < 0 THEN list
    ELSE DelAt(list, list_index(list, x))

list_remove_raises(list, x) ==
    IF list_index(list, x) < 0 THEN "ValueError" ELSE "None"

\* ---------------------------------------------------------- PriorityQueue

RECURSIVE first_occurrences(_)
\* the values in the order given, each one kept once
first_occurrences(values) ==
    IF values = <<>> THEN <<>>
    ELSE LET front == first_occurrences(SubSeq(values, 1, Len(values) - 1))
             last == values[Len(values)]
         IN IF \E i \in DOMAIN front : front[i] = last
            THEN front
            ELSE Append(front, last)

\* __init__ gone wrong: a value given several times is kept once
init_items_unique(key, reverse, values) ==
    heapify(key, reverse,
            [i \in 1..Len(first_occurrences(values)) |->
                 value_to_item(key, reverse, first_occurrences(values)[i])])

\* the list __init__ builds from the given values and heapifies
init_items(key, reverse, values) ==
    heapify(key, reverse,
            [i \in 1..Len(values) |-> value_to_item(key, reverse, values[i])])

\* the _values property: the items' values, in the order of the list
values_of(key, reverse, its) ==
    [i \in 1..Len(its) |-> item_to_value(key, reverse, its[i])]

\* __contains__: `value in self._values`
contains(key, reverse, its, value) ==
    \E i \in 1..Len(its) : values_of(key, reverse, its)[i] = value

\* __len__
len(its) == Len(its)

\* __iter__ gone wrong: the values are taken out of the list one by one
iter_items_consuming(key, reverse, its) == <<>>

\* __iter__ gone wrong: the list is left, and iterated, in heap order
iter_items_unsorted(key, reverse, its) == its

\* __iter__ first replaces the list by its sorted copy ...
iter_items(key, reverse, its) == sorted(key, reverse, its)

\* ... and then iterates over a copy of its values
iter_yields(key, reverse, its) ==
    values_of(key, reverse, iter_items(key, reverse, its))

\* add gone wrong: the item is appended and never sifted
add_items_unsifted(key, reverse, its, value) ==
    Append(its, value_to_item(key, reverse, value))

\* add gone wrong: heappushpop instead of heappush, the least item is dropped
add_items_pushpop(key, reverse, its, value) ==
    heappop_heap(key, reverse,
                 heappush(key, reverse, its,
                          value_to_item(key, reverse, value)))

add_items(key, reverse, its, value) ==
    heappush(key, reverse, its, value_to_item(key, reverse, value))

\* remove: list.remove's ValueError becomes KeyError, otherwise no exception
remove_raises(key, reverse, its, value) ==
    IF list_remove_raises(its, value_to_item(key, reverse, value))
           = "ValueError"
    THEN "KeyError"
    ELSE "None"

\* remove gone wrong: the list is not heapified after the deletion
remove_items_unheapified(key, reverse, its, value) ==
    list_remove(its, value_to_item(key, reverse, value))

\* remove: the list after list.remove, heapified when nothing was raised
remove_items(key, reverse, its, value) ==
    IF remove_raises(key, reverse, its, value) = "None"
    THEN heapify(key, reverse,
                 list_remove(its, value_to_item(key, reverse, value)))
    ELSE list_remove(its, value_to_item(key, reverse, value))

\* discard gone wrong: the KeyError of remove is not caught
discard_raises_uncaught(key, reverse, its, value) ==
    remove_raises(key, reverse, its, value)

\* discard: remove, with its KeyError caught
discard_raises(key, reverse, its, value) ==
    IF remove_raises(key, reverse, its, value) = "KeyError"
    THEN "None"
    ELSE remove_raises(key, reverse, its, value)

discard_items(key, reverse, its, value) ==
    remove_items(key, reverse, its, value)

\* peek: the IndexError of `self._items[0]` becomes KeyError
peek_raises(its) == IF Len(its) = 0 THEN "KeyError" ELSE "None"

\* peek: the value of the first item; nothing is returned when it raises
peek_returns(key, reverse, its) ==
    IF peek_raises(its) = "None"
    THEN <<item_to_value(key, reverse, At(its, 0))>>
    ELSE <<>>

\* pop gone wrong: heappop's IndexError is let through
pop_raises_untranslated(its) == heappop_raises(its)

\* pop: the IndexError of heapq.heappop becomes KeyError
pop_raises(its) ==
    IF heappop_raises(its) = "IndexError" THEN "KeyError" ELSE "None"

pop_returns(key, reverse, its) ==
    IF pop_raises(its) = "None"
    THEN <<item_to_value(key, reverse, heappop_item(its))>>
    ELSE <<>>

\* pop gone wrong: the first item is returned and the last one is dropped
pop_items_drop_last(key, reverse, its) == SubSeq(its, 1, Len(its) - 1)

pop_items(key, reverse, its) == heappop_heap(key, reverse, its)

\* clear gone wrong: `del self._items[1:]`, the first item stays
clear_items_but_first(its) == IF its = <<>> THEN <<>> ELSE <<its[1]>>

\* clear: list.clear
clear_items(its) == <<>>

\* ------------------------------------------------- queues as operands

\* a queue object: its identity and its _key, _reverse and _items
NewQueue(id, k, rev, values) ==
    [id |-> id, key |-> k, reverse |-> rev,
     items |-> init_items(k, rev, values)]

\* __iter__ gone wrong: the list is replaced by the sorted copy back to front
Sorted_back_to_front(q, called) ==
    IF called
    THEN [q EXCEPT !.items =
              [i \in 1..Len(q.items) |->
                   iter_items(q.key, q.reverse,
                              q.items)[Len(q.items) + 1 - i]]]
    ELSE q

\* the queue after __iter__ or __reversed__ has replaced its list by the
\* sorted copy, when the call was made
Sorted(q, called) ==
    IF called
    THEN [q EXCEPT !.items = iter_items(q.key, q.reverse, q.items)]
    ELSE q

\* list(queue): what __iter__ yields
iterate(q) == iter_yields(q.key, q.reverse, q.items)

\* a list back to front, `[::-1]`
backwards(list) == [i \in 1..Len(list) |-> list[Len(list) + 1 - i]]

\* __reversed__ gone wrong: it yields the values front to back
iterate_reversed_forwards(q) == iterate(q)

\* list(reversed(queue)): __reversed__ sorts the list as __iter__ does and
\* yields the values back to front
iterate_reversed(q) == backwards(iterate(q))

\* `a < b` on the keys sorted(values, key=key, reverse=reverse) compares:
\* with reverse the order of the keys is turned round
value_lt(k, rev, a, b) ==
    IF rev THEN key_of(k, b) < key_of(k, a)
           ELSE key_of(k, a) < key_of(k, b)

RECURSIVE insert_value(_, _, _, _)
\* xs with x inserted after every element whose place is not after x's (a
\* stable insertion; with reverse equal keys keep their order too)
insert_value(k, rev, xs, x) ==
    IF xs # <<>> /\ value_lt(k, rev, x, xs[Len(xs)])
    THEN Append(insert_value(k, rev, SubSeq(xs, 1, Len(xs) - 1), x),
                xs[Len(xs)])
    ELSE Append(xs, x)

RECURSIVE sorted_values(_, _, _)
\* sorted(values, key=key, reverse=reverse)
sorted_values(k, rev, values) ==
    IF values = <<>> THEN <<>>
    ELSE insert_value(k, rev,
                      sorted_values(k, rev,
                                    SubSeq(values, 1, Len(values) - 1)),
                      values[Len(values)])

\* the 1-based position of the first element of list equal to value, 0
\* without one
first_position(list, value) ==
    IF \E i \in DOMAIN list : list[i] = value
    THEN CHOOSE i \in DOMAIN list :
             /\ list[i] = value
             /\ \A j \in 1..(i - 1) : list[j] # value
    ELSE 0

RECURSIVE all_in_iterator(_, _)
\* `all(value in iterator for value in values)`: each `in` reads the
\* iterator up to the first element equal to value and leaves the rest of it
\* to the next `in`; the first value not found ends the loop
all_in_iterator(values, iterator) ==
    IF values = <<>> THEN TRUE
    ELSE IF first_position(iterator, Head(values)) = 0 THEN FALSE
    ELSE all_in_iterator(Tail(values),
                         SubSeq(iterator,
                                first_position(iterator, Head(values)) + 1,
                                Len(iterator)))

\* __le__ gets to its last branch, where it calls iter on both queues
le_iterates(self, other) ==
    /\ self.id # other.id
    /\ ~(len(self.items) > len(other.items))

\* __le__ gone wrong: values are looked up in a list of the other queue's
\* values, so that one value of the other queue answers for several
le_returns_in_list(self, other) ==
    IF self.id = other.id THEN TRUE
    ELSE IF len(self.items) > len(other.items) THEN FALSE
    ELSE \A i \in DOMAIN iterate(self) :
             first_position(iterate(other), iterate(self)[i]) # 0

\* __le__ gone wrong: `any` in place of `all`, one value found is enough
le_returns_any(self, other) ==
    IF self.id = other.id THEN TRUE
    ELSE IF len(self.items) > len(other.items) THEN FALSE
    ELSE \E i \in DOMAIN iterate(self) :
             first_position(iterate(other), iterate(self)[i]) # 0

\* __le__
le_returns(self, other) ==
    IF self.id = other.id THEN TRUE
    ELSE IF len(self.items) > len(other.items) THEN FALSE
    ELSE all_in_iterator(iterate(self), iterate(other))

\* __eq__ gone wrong: the queues are equal when they hold the same values as
\* often, in whatever order they yield them
eq_returns_same_values(self, other) ==
    \/ self.id = other.id
    \/ sorted_values("None", FALSE,
                     values_of(self.key, self.reverse, self.items))
           = sorted_values("None", FALSE,
                           values_of(other.key, other.reverse, other.items))

\* __eq__ gone wrong: `self <= other` alone
eq_returns_one_way(self, other) ==
    self.id = other.id \/ le_returns(self, other)

\* __eq__: `self is other or self <= other <= self`
eq_returns(self, other) ==
    \/ self.id = other.id
    \/ le_returns(self, other) /\ le_returns(other, self)

\* __eq__ has called iter on both queues: the first `<=` did, or it held
\* and the second one did
eq_iterates(self, other) ==
    /\ self.id # other.id
    /\ \/ le_iterates(self, other)
       \/ le_returns(self, other) /\ le_iterates(other, self)

\* the operator.lt or operator.gt that intersect_sorted compares with
operator(rev, a, b) == IF rev THEN a > b ELSE a < b

RECURSIVE intersect_sorted_yield_right(_, _, _, _)
\* intersect_sorted gone wrong: of two elements that match the right one is
\* yielded
intersect_sorted_yield_right(k, rev, left, right) ==
    IF left = <<>> \/ right = <<>> THEN <<>>
    ELSE IF operator(rev, key_of(k, Head(left)), key_of(k, Head(right)))
         THEN intersect_sorted_yield_right(k, rev, Tail(left), right)
    ELSE IF operator(rev, key_of(k, Head(right)), key_of(k, Head(left)))
         THEN intersect_sorted_yield_right(k, rev, left, Tail(right))
    ELSE <<Head(right)>>
             \o intersect_sorted_yield_right(k, rev, Tail(left), Tail(right))

RECURSIVE intersect_sorted_yield_smaller(_, _, _, _)
\* intersect_sorted gone wrong: a left value less than the right one is
\* yielded instead of skipped
intersect_sorted_yield_smaller(k, rev, left, right) ==
    IF left = <<>> \/ right = <<>> THEN <<>>
    ELSE IF operator(rev, key_of(k, Head(left)), key_of(k, Head(right)))
         THEN <<Head(left)>>
                  \o intersect_sorted_yield_smaller(k, rev, Tail(left), right)
    ELSE IF operator(rev, key_of(k, Head(right)), key_of(k, Head(left)))
         THEN intersect_sorted_yield_smaller(k, rev, left, Tail(right))
    ELSE <<Head(left)>>
             \o intersect_sorted_yield_smaller(k, rev, Tail(left),
                                               Tail(right))

RECURSIVE intersect_sorted(_, _, _, _)
\* utils.intersect_sorted: the values the generator yields. Both sides are
\* read in step; the side whose key (whose value, without a key) comes first
\* under the operator moves on, and when neither comes first the left value
\* is yielded and both sides move on. It ends when a side is exhausted.
intersect_sorted(k, rev, left, right) ==
    IF left = <<>> \/ right = <<>> THEN <<>>
    ELSE IF operator(rev, key_of(k, Head(left)), key_of(k, Head(right)))
         THEN intersect_sorted(k, rev, Tail(left), right)
    ELSE IF operator(rev, key_of(k, Head(right)), key_of(k, Head(left)))
         THEN intersect_sorted(k, rev, left, Tail(right))
    ELSE <<Head(left)>> \o intersect_sorted(k, rev, Tail(left), Tail(right))

\* __and__ and __sub__ call iter or reversed on the other queue when the
\* keys are one object (`self._key is other._key`)
other_is_iterated(self, other) == self.key = other.key

\* the other queue's values as __and__ and __sub__ bring them into the
\* order of self
other_values(self, other) ==
    IF self.key = other.key
    THEN IF self.reverse = other.reverse THEN iterate(other)
                                         ELSE iterate_reversed(other)
    ELSE sorted_values(self.key, self.reverse,
                       values_of(other.key, other.reverse, other.items))

\* __and__: the values the new queue is built from
and_values(self, other) ==
    intersect_sorted(self.key, self.reverse,
                     iterate(self), other_values(self, other))

\* __and__ gone wrong: the new queue is not given the reverse flag of self
and_returns_default_reverse(id, self, other) ==
    NewQueue(id, self.key, FALSE, and_values(self, other))

\* __and__: the new queue, with the key and reverse of self
and_returns(id, self, other) ==
    NewQueue(id, self.key, self.reverse, and_values(self, other))

\* __ge__ gets to its last branch, where it calls iter on both queues
ge_iterates(self, other) ==
    self.id # other.id /\ ~(len(self.items) < len(other.items))

\* __ge__
ge_returns(self, other) ==
    IF self.id = other.id THEN TRUE
    ELSE IF len(self.items) < len(other.items) THEN FALSE
    ELSE all_in_iterator(iterate(other), iterate(self))

\* __ne__, which Python derives from __eq__
ne_returns(self, other) == ~eq_returns(self, other)

\* __lt__ gets past the lengths to `self <= other`, which calls iter on both
lt_iterates(self, other) ==
    len(self.items) < len(other.items) /\ le_iterates(self, other)

\* __lt__: `len(self) < len(other) and self <= other and self != other`
lt_returns(self, other) ==
    /\ len(self.items) < len(other.items)
    /\ le_returns(self, other)
    /\ ne_returns(self, other)

\* __gt__ gets past the lengths to `self >= other`, which calls iter on both
gt_iterates(self, other) ==
    len(self.items) > len(other.items) /\ ge_iterates(self, other)

\* __gt__: `len(self) > len(other) and self >= other and self != other`
gt_returns(self, other) ==
    /\ len(self.items) > len(other.items)
    /\ ge_returns(self, other)
    /\ ne_returns(self, other)

\* isdisjoint gone wrong: it answers whether the intersection is empty
isdisjoint_returns_as_and(self, other) ==
    len(and_returns("i", self, other).items) = 0

\* isdisjoint: `all(value not in other_values for value in self._values)`
isdisjoint_returns(self, other) ==
    \A i \in DOMAIN values_of(self.key, self.reverse, self.items) :
        first_position(values_of(other.key, other.reverse, other.items),
                       values_of(self.key, self.reverse, self.items)[i]) = 0

\* __or__ gone wrong: a union of sets, every value is kept once
or_values_as_set(self, other) ==
    first_occurrences(values_of(self.key, self.reverse, self.items)
                      \o values_of(other.key, other.reverse, other.items))

\* __or__ gone wrong: values of other that self holds are left out
or_values_unique(self, other) ==
    values_of(self.key, self.reverse, self.items)
    \o SelectSeq(values_of(other.key, other.reverse, other.items),
                 LAMBDA v : ~contains(self.key, self.reverse, self.items, v))

\* __or__: `*self._values, *other._values`
or_values(self, other) ==
    values_of(self.key, self.reverse, self.items)
    \o values_of(other.key, other.reverse, other.items)

\* __or__ gone wrong: the new queue is not given the reverse flag of self
or_returns_default_reverse(id, self, other) ==
    NewQueue(id, self.key, FALSE, or_values(self, other))

\* __or__: the new queue, with the key and reverse of self
or_returns(id, self, other) ==
    NewQueue(id, self.key, self.reverse, or_values(self, other))

RECURSIVE subtract_sorted_keep_matched(_, _, _, _)
\* subtract_sorted gone wrong: a left element that matches is yielded too
subtract_sorted_keep_matched(k, rev, left, right) ==
    IF left = <<>> THEN <<>>
    ELSE IF right = <<>> THEN left
    ELSE IF operator(rev, key_of(k, Head(left)), key_of(k, Head(right)))
         THEN <<Head(left)>>
                  \o subtract_sorted_keep_matched(k, rev, Tail(left), right)
    ELSE IF operator(rev, key_of(k, Head(right)), key_of(k, Head(left)))
         THEN subtract_sorted_keep_matched(k, rev, left, Tail(right))
    ELSE <<Head(left)>>
             \o subtract_sorted_keep_matched(k, rev, Tail(left), Tail(right))

RECURSIVE subtract_sorted(_, _, _, _)
\* utils.subtract_sorted: the values the generator yields. Both sides are
\* read in step; a left element that comes first under the operator is
\* yielded, a right one that comes first is skipped, and when neither comes
\* first both are skipped. When the right side is exhausted the rest of the
\* left side is yielded.
subtract_sorted(k, rev, left, right) ==
    IF left = <<>> THEN <<>>
    ELSE IF right = <<>> THEN left
    ELSE IF operator(rev, key_of(k, Head(left)), key_of(k, Head(right)))
         THEN <<Head(left)>> \o subtract_sorted(k, rev, Tail(left), right)
    ELSE IF operator(rev, key_of(k, Head(right)), key_of(k, Head(left)))
         THEN subtract_sorted(k, rev, left, Tail(right))
    ELSE subtract_sorted(k, rev, Tail(left), Tail(right))

\* __sub__: the values the new queue is built from
sub_values(self, other) ==
    subtract_sorted(self.key, self.reverse,
                    iterate(self), other_values(self, other))

\* __sub__: the new queue, with the key and reverse of self
sub_returns(id, self, other) ==
    NewQueue(id, self.key, self.reverse, sub_values(self, other))

\* self as __and__ and __sub__ leave it: list(self) has sorted its list
left_after(self, other) == Sorted(self, TRUE)

\* other as __and__ and __sub__ leave it: sorted when it was iterated, or
\* when it is self
right_after(self, other) ==
    Sorted(other, other_is_iterated(self, other) \/ self.id = other.id)

\* __xor__ gets to `(self - other) | (other - self)`
xor_subtracts(self, other) ==
    len(self.items) # 0 /\ len(other.items) # 0

\* __xor__ gone wrong: without the two early returns
xor_returns_always_new(id, self, other) ==
    or_returns(id,
               sub_returns("left", self, other),
               sub_returns("right", right_after(self, other),
                           left_after(self, other)))

\* __xor__: other itself when self is empty, self itself when other is
\* empty, else `(self - other) | (other - self)`, where the second
\* subtraction finds the operands as the first one left them
xor_returns(id, self, other) ==
    IF len(self.items) = 0 THEN other
    ELSE IF len(other.items) = 0 THEN self
    ELSE or_returns(id,
                    sub_returns("left", self, other),
                    sub_returns("right", right_after(self, other),
                                left_after(self, other)))

\* ---------------------------------------------- queues and lists as objects

\* the names of the queue objects
Names == {"a", "b"}

\* the other one of the two
Other(x) == IF x = "a" THEN "b" ELSE "a"

\* the addresses of the lists that objects refer to: every object has one
\* list at a time
Addresses == 1..Cardinality(Names)

\* the address of the list of values that an iterator goes through: one
\* iterator is followed at a time
ValuesAddress == Cardinality(Names) + 1

\* the addresses of all lists
ListAddresses == Addresses \cup {ValuesAddress}

\* _values gone wrong: it returns the list of the items itself
py_values_list_of_items(items_address) == items_address

\* the address of the list that _values returns, `[... for item in
\* self._items]`: a new list, not the one that _items refers to
py_values_list(items_address) == ValuesAddress

\* the class of the items that _value_to_item makes, as __init__ chooses it
item_class(k, rev) ==
    IF rev
    THEN IF k = "None" THEN "SimpleReverser" ELSE "ComplexReverser"
    ELSE IF k = "None" THEN "int" ELSE "tuple"

\* An object that a list of a queue can hold, whatever queue made it: an
\* int, a tuple (key, value) of ints or a ComplexReverser of such a tuple,
\* wrapped in `reversers` SimpleReversers. `key` is 0 where there is none.
PyInt(v) == [base |-> "int", key |-> 0, value |-> v, reversers |-> 0]

PyTuple(k, v) == [base |-> "tuple", key |-> k, value |-> v, reversers |-> 0]

PyComplexReverser(k, v) ==
    [base |-> "ComplexReverser", key |-> k, value |-> v, reversers |-> 0]

PySimpleReverser(item) == [item EXCEPT !.reversers = @ + 1]

\* type(object).__name__
type_of(x) == IF x.reversers > 0 THEN "SimpleReverser" ELSE x.base

\* the integers as objects
PyInts(vs) == [i \in DOMAIN vs |-> PyInt(vs[i])]

\* the exception of `a < b` and of `a > b`: int and tuple do not compare
\* with another class, the reversers' __lt__ returns NotImplemented for
\* another class and compares what is wrapped for its own
lt_raises(a, b) ==
    IF a.base = b.base /\ a.reversers = b.reversers THEN "None"
                                                      ELSE "TypeError"

\* `a < b` on two ints, two tuples or two ComplexReversers (whose __lt__ is
\* `>` on the tuples)
base_lt(a, b) ==
    IF a.base = "int" THEN a.value < b.value
    ELSE IF a.base = "tuple"
         THEN tuple_lt(<<a.key, a.value>>, <<b.key, b.value>>)
    ELSE tuple_lt(<<b.key, b.value>>, <<a.key, a.value>>)

\* `a < b` where it does not raise: every SimpleReverser turns the order of
\* what it wraps round
py_lt(a, b) == IF a.reversers % 2 = 0 THEN base_lt(a, b) ELSE base_lt(b, a)

\* the operator.lt or operator.gt of utils, on objects
py_operator(rev, a, b) == IF rev THEN py_lt(b, a) ELSE py_lt(a, b)

\* what a function that can raise hands back
Returns(list) == [list |-> list, raised |-> "None"]

Raises(list, exception) == [list |-> list, raised |-> exception]

\* the list with the elements at two 0-based positions exchanged
Swapped(list, i, j) ==
    [list EXCEPT ![i + 1] = list[j + 1], ![j + 1] = list[i + 1]]

RECURSIVE py_siftdown(_, _, _)
\* _heapq's siftdown: the item at pos is exchanged with its parent while it
\* is less; a comparison that raises leaves the list as it is by then
py_siftdown(heap, startpos, pos) ==
    IF pos > startpos
    THEN LET parentpos == (pos - 1) \div 2
         IN IF lt_raises(At(heap, pos), At(heap, parentpos)) # "None"
            THEN Raises(heap, lt_raises(At(heap, pos), At(heap, parentpos)))
            ELSE IF py_lt(At(heap, pos), At(heap, parentpos))
            THEN py_siftdown(Swapped(heap, pos, parentpos), startpos,
                             parentpos)
            ELSE Returns(heap)
    ELSE Returns(heap)

RECURSIVE py_siftup_loop(_, _, _)
\* _heapq's siftup: the smaller child is exchanged with the item down to a
\* leaf, then the item is sifted down from there
py_siftup_loop(heap, startpos, pos) ==
    LET endpos == Len(heap)
        leftpos == 2 * pos + 1
        rightpos == leftpos + 1
    IN IF pos < endpos \div 2
       THEN IF rightpos < endpos
            THEN IF lt_raises(At(heap, leftpos), At(heap, rightpos)) # "None"
                 THEN Raises(heap, lt_raises(At(heap, leftpos),
                                             At(heap, rightpos)))
                 ELSE IF py_lt(At(heap, leftpos), At(heap, rightpos))
                 THEN py_siftup_loop(Swapped(heap, pos, leftpos), startpos,
                                     leftpos)
                 ELSE py_siftup_loop(Swapped(heap, pos, rightpos), startpos,
                                     rightpos)
            ELSE py_siftup_loop(Swapped(heap, pos, leftpos), startpos,
                                leftpos)
       ELSE py_siftdown(heap, startpos, pos)

py_siftup(heap, pos) == py_siftup_loop(heap, pos, pos)

RECURSIVE py_heapify_from(_, _)
\* heapq.heapify's loop from position i down to 0, ended by an exception
py_heapify_from(x, i) ==
    IF i < 0 THEN Returns(x)
    ELSE IF py_siftup(x, i).raised # "None" THEN py_siftup(x, i)
    ELSE py_heapify_from(py_siftup(x, i).list, i - 1)

py_heapify(x) == py_heapify_from(x, (Len(x) \div 2) - 1)

\* heapq.heappush: the item is appended, then sifted down
py_heappush(heap, item) == py_siftdown(Append(heap, item), 0, Len(heap))

\* heapq.heappop: IndexError on an empty list; else the last item is taken
\* off, put in the root's place and sifted, and the root is returned
py_heappop(heap) ==
    IF Len(heap) = 0
    THEN [list |-> heap, item |-> <<>>, raised |-> "IndexError"]
    ELSE LET lastelt == heap[Len(heap)]
             rest == SubSeq(heap, 1, Len(heap) - 1)
             sifted == py_siftup(SetAt(rest, 0, lastelt), 0)
         IN IF Len(rest) = 0
            THEN [list |-> rest, item |-> <<lastelt>>, raised |-> "None"]
            ELSE IF sifted.raised # "None"
            THEN [list |-> sifted.list, item |-> <<>>,
                  raised |-> sifted.raised]
            ELSE [list |-> sifted.list, item |-> <<At(heap, 0)>>,
                  raised |-> "None"]

\* every two objects of the list compare
comparable(list) ==
    \A i \in DOMAIN list, j \in DOMAIN list :
        lt_raises(list[i], list[j]) = "None"

\* the sorting key of a value: abs raises TypeError for what is no int
key_raises(k, value) ==
    IF k = "None" \/ type_of(value) = "int" THEN "None" ELSE "TypeError"

py_key_of(k, value) == IF k = "None" THEN value ELSE PyInt(abs(value.value))

\* some key of the list raises
keys_raise(k, list) ==
    IF \E i \in DOMAIN list : key_raises(k, list[i]) # "None"
    THEN "TypeError" ELSE "None"

RECURSIVE py_insert(_, _, _, _)
\* xs with x inserted after every element whose place is not after x's
py_insert(k, rev, xs, x) ==
    IF xs # <<>> /\ py_operator(rev, py_key_of(k, x),
                                py_key_of(k, xs[Len(xs)]))
    THEN Append(py_insert(k, rev, SubSeq(xs, 1, Len(xs) - 1), x),
                xs[Len(xs)])
    ELSE Append(xs, x)

RECURSIVE py_stable(_, _, _)
py_stable(k, rev, xs) ==
    IF xs = <<>> THEN <<>>
    ELSE py_insert(k, rev, py_stable(k, rev, SubSeq(xs, 1, Len(xs) - 1)),
                   xs[Len(xs)])

\* sorted(list, key=k, reverse=rev): the keys are computed, then compared;
\* a list whose keys do not all compare with each other raises TypeError
py_sorted(k, rev, list) ==
    IF keys_raise(k, list) # "None" THEN Raises(list, "TypeError")
    ELSE IF ~comparable([i \in DOMAIN list |-> py_key_of(k, list[i])])
    THEN Raises(list, "TypeError")
    ELSE Returns(py_stable(k, rev, list))

\* the exception of _item_to_value on an object: attrgetter('value') wants
\* a reverser, itemgetter(1) a tuple
item_to_value_raises(k, rev, item) ==
    IF rev
    THEN IF type_of(item) \in {"SimpleReverser", "ComplexReverser"}
         THEN "None" ELSE "AttributeError"
    ELSE IF k = "None" \/ type_of(item) = "tuple"
         THEN "None" ELSE "TypeError"

\* _item_to_value where it does not raise: what a SimpleReverser wraps, the
\* second element of a tuple or of the tuple of a ComplexReverser
py_item_to_value(k, rev, item) ==
    IF rev
    THEN IF item.reversers > 0 THEN [item EXCEPT !.reversers = @ - 1]
                               ELSE PyInt(item.value)
    ELSE IF k = "None" THEN item ELSE PyInt(item.value)

\* the _values property on any list
py_values(k, rev, list) ==
    IF \E i \in DOMAIN list : item_to_value_raises(k, rev, list[i]) # "None"
    THEN Raises(<<>>, IF rev THEN "AttributeError" ELSE "TypeError")
    ELSE Returns([i \in DOMAIN list |-> py_item_to_value(k, rev, list[i])])

\* _value_to_item on any value: key(value) raises for what is no int
py_value_to_item(k, rev, value) ==
    IF k = "None"
    THEN IF rev THEN PySimpleReverser(value) ELSE value
    ELSE IF rev THEN PyComplexReverser(abs(value.value), value.value)
                ELSE PyTuple(abs(value.value), value.value)

\* PriorityQueue(*values, key=k, reverse=rev): the list of the new queue
py_init(k, rev, values) ==
    IF keys_raise(k, values) # "None" THEN Raises(<<>>, "TypeError")
    ELSE py_heapify([i \in DOMAIN values |->
                        py_value_to_item(k, rev, values[i])])

\* `[]`
EmptyList == <<>>

\* a name that no queue object is bound to yet
NoObject == [key |-> "None", reverse |-> FALSE, items |-> 0]

\* no call was made, or the caller is done with the last one
NoCall ==
    [name |-> "None", self |-> "None", other |-> "None", value |-> <<>>,
     returned |-> <<>>, answered |-> <<>>, raised |-> "None",
     shared |-> FALSE]

\* no iterator was made
NoIterator == [of |-> "None", list |-> 0, index |-> 0]

\* the values a generator has yielded followed by what came after them
Yield(value, rest) ==
    IF rest.raised # "None" THEN rest
    ELSE Returns(<<value>> \o rest.list)

RECURSIVE py_intersect_sorted(_, _, _, _)
RECURSIVE py_intersect_loop(_, _, _, _)
\* utils.intersect_sorted on any values, from `next(left), next(right)`: a
\* side's key is computed when the side is read, and can raise
py_intersect_sorted(k, rev, left, right) ==
    IF left = <<>> THEN Returns(<<>>)
    ELSE IF key_raises(k, Head(left)) # "None" THEN Raises(<<>>, "TypeError")
    ELSE IF right = <<>> THEN Returns(<<>>)
    ELSE IF key_raises(k, Head(right)) # "None" THEN Raises(<<>>, "TypeError")
    ELSE py_intersect_loop(k, rev, left, right)

\* the body of its `while True`: the comparison of the two keys can raise
py_intersect_loop(k, rev, left, right) ==
    LET left_key == py_key_of(k, Head(left))
        right_key == py_key_of(k, Head(right))
    IN IF lt_raises(left_key, right_key) # "None"
       THEN Raises(<<>>, "TypeError")
       ELSE IF py_operator(rev, left_key, right_key)
       THEN IF Tail(left) = <<>> THEN Returns(<<>>)
            ELSE IF key_raises(k, Head(Tail(left))) # "None"
            THEN Raises(<<>>, "TypeError")
            ELSE py_intersect_loop(k, rev, Tail(left), right)
       ELSE IF py_operator(rev, right_key, left_key)
       THEN IF Tail(right) = <<>> THEN Returns(<<>>)
            ELSE IF key_raises(k, Head(Tail(right))) # "None"
            THEN Raises(<<>>, "TypeError")
            ELSE py_intersect_loop(k, rev, left, Tail(right))
       ELSE Yield(Head(left),
                  py_intersect_sorted(k, rev, Tail(left), Tail(right)))

RECURSIVE py_subtract_right(_, _, _, _)
RECURSIVE py_subtract_loop(_, _, _, _)
\* utils.subtract_sorted on any values, from `next(right)` with a left
\* value at hand: when the right side is exhausted the left value and the
\* rest of the left side are yielded
py_subtract_right(k, rev, left, right) ==
    IF right = <<>>
    THEN IF keys_raise(k, Tail(left)) # "None" THEN Raises(<<>>, "TypeError")
         ELSE Returns(left)
    ELSE IF key_raises(k, Head(right)) # "None" THEN Raises(<<>>, "TypeError")
    ELSE py_subtract_loop(k, rev, left, right)

\* the body of its `while True`
py_subtract_loop(k, rev, left, right) ==
    LET left_key == py_key_of(k, Head(left))
        right_key == py_key_of(k, Head(right))
    IN IF lt_raises(left_key, right_key) # "None"
       THEN Raises(<<>>, "TypeError")
       ELSE IF py_operator(rev, left_key, right_key)
       THEN IF Tail(left) = <<>> THEN Returns(<<Head(left)>>)
            ELSE IF key_raises(k, Head(Tail(left))) # "None"
            THEN Raises(<<>>, "TypeError")
            ELSE Yield(Head(left),
                       py_subtract_loop(k, rev, Tail(left), right))
       ELSE IF py_operator(rev, right_key, left_key)
       THEN py_subtract_right(k, rev, left, Tail(right))
       ELSE IF Tail(left) = <<>> THEN Returns(<<>>)
            ELSE IF key_raises(k, Head(Tail(left))) # "None"
            THEN Raises(<<>>, "TypeError")
            ELSE py_subtract_right(k, rev, Tail(left), Tail(right))

\* utils.subtract_sorted on any values
py_subtract_sorted(k, rev, left, right) ==
    IF left = <<>> THEN Returns(<<>>)
    ELSE IF key_raises(k, Head(left)) # "None" THEN Raises(<<>>, "TypeError")
    ELSE py_subtract_right(k, rev, left, right)

\* iter(queue) and reversed(queue) up to the values: the list is sorted,
\* which can raise; then _items is bound to the sorted list; then the values
\* are read from it, which can raise too
py_iter(q) ==
    LET read(made) ==
            LET yields(values) ==
                    [raised |-> values.raised, values |-> values.list,
                     items |-> made.list, rebound |-> TRUE]
            IN IF made.raised # "None"
               THEN [raised |-> made.raised, values |-> <<>>,
                     items |-> q.items, rebound |-> FALSE]
               ELSE yields(py_values(q.key, q.reverse, made.list))
    IN read(py_sorted("None", FALSE, q.items))

\* the other queue's values as __and__ and __sub__ bring them into the
\* order of self, with what that does to the other queue
py_other_values(self, other) ==
    LET iterated_through(it) ==
            [raised |-> it.raised,
             values |-> IF self.reverse = other.reverse
                        THEN it.values ELSE backwards(it.values),
             items |-> it.items, rebound |-> it.rebound]
        sorted_from(read) ==
            LET sorted_to(made) ==
                    [raised |-> IF read.raised # "None" THEN read.raised
                                ELSE made.raised,
                     values |-> made.list, items |-> other.items,
                     rebound |-> FALSE]
            IN sorted_to(py_sorted(self.key, self.reverse, read.list))
    IN IF self.key = other.key
       THEN iterated_through(py_iter(other))
       ELSE sorted_from(py_values(other.key, other.reverse, other.items))

\* __and__ and __sub__ on any two queues: the exception or the list of the
\* new queue, the lists of self and other afterwards, and which of the two
\* has been bound to a new list
py_and_or_sub(name, self, other) ==
    LET with_other(theirs) ==
            LET with_self(now, mine) ==
                    LET with_values(yielded) ==
                            LET with_queue(made) ==
                                    [raised |->
                                         IF mine.raised # "None"
                                         THEN mine.raised
                                         ELSE IF yielded.raised # "None"
                                         THEN yielded.raised
                                         ELSE made.raised,
                                     list |-> made.list,
                                     self |-> mine.items,
                                     other |-> IF self.id = other.id
                                               THEN mine.items
                                               ELSE theirs.items,
                                     rebound |->
                                         (IF theirs.rebound THEN {other.id}
                                                            ELSE {})
                                         \cup (IF mine.rebound THEN {self.id}
                                                               ELSE {})]
                            IN with_queue(py_init(self.key, self.reverse,
                                                  yielded.list))
                    IN IF theirs.raised # "None"
                       THEN [raised |-> theirs.raised, list |-> <<>>,
                             self |-> now.items, other |-> theirs.items,
                             rebound |-> IF theirs.rebound THEN {other.id}
                                                           ELSE {}]
                       ELSE with_values(
                                IF name = "__and__"
                                THEN py_intersect_sorted(
                                         self.key, self.reverse,
                                         mine.values, theirs.values)
                                ELSE py_subtract_sorted(
                                         self.key, self.reverse,
                                         mine.values, theirs.values))
                with_now(now) == with_self(now, py_iter(now))
            IN with_now(IF self.id = other.id
                        THEN [self EXCEPT !.items = theirs.items] ELSE self)
    IN with_other(py_other_values(self, other))

\* __or__ on any two queues: it binds nothing
py_or(self, other) ==
    LET with_values(mine, theirs) ==
            LET with_queue(made) ==
                    [raised |-> IF mine.raised # "None" THEN mine.raised
                                ELSE IF theirs.raised # "None"
                                THEN theirs.raised
                                ELSE made.raised,
                     list |-> made.list,
                     self |-> self.items, other |-> other.items,
                     rebound |-> {}]
            IN with_queue(py_init(self.key, self.reverse,
                                  mine.list \o theirs.list))
    IN with_values(py_values(self.key, self.reverse, self.items),
                   py_values(other.key, other.reverse, other.items))

\* `(self - other) | (other - self)` of __xor__ on any two queues
py_xor(self, other) ==
    LET with_first(first) ==
            LET with_second(second) ==
                    LET with_joined(joined) ==
                            [raised |-> IF second.raised # "None"
                                        THEN second.raised
                                        ELSE joined.raised,
                             list |-> joined.list,
                             self |-> second.other, other |-> second.self,
                             rebound |-> first.rebound \cup second.rebound]
                    IN with_joined(
                           py_or([id |-> "left", key |-> self.key,
                                  reverse |-> self.reverse,
                                  items |-> first.list],
                                 [id |-> "right", key |-> other.key,
                                  reverse |-> other.reverse,
                                  items |-> second.list]))
            IN IF first.raised # "None" THEN first
               ELSE with_second(
                        py_and_or_sub("__sub__",
                                      [other EXCEPT !.items = first.other],
                                      [self EXCEPT !.items = first.self]))
    IN with_first(py_and_or_sub("__sub__", self, other))

\* __le__ on any two queues
py_le(self, other) ==
    LET with_self(mine) ==
            LET with_other(theirs) ==
                    [raised |-> theirs.raised,
                     answer |-> /\ theirs.raised = "None"
                                /\ all_in_iterator(mine.values,
                                                   theirs.values),
                     self |-> mine.items, other |-> theirs.items,
                     rebound |-> {self.id}
                                    \cup (IF theirs.rebound THEN {other.id}
                                                            ELSE {})]
            IN IF mine.raised # "None"
               THEN [raised |-> mine.raised, answer |-> FALSE,
                     self |-> mine.items, other |-> other.items,
                     rebound |-> IF mine.rebound THEN {self.id} ELSE {}]
               ELSE with_other(py_iter(other))
    IN IF self.id = other.id
       THEN [raised |-> "None", answer |-> TRUE, self |-> self.items,
             other |-> other.items, rebound |-> {}]
       ELSE IF Len(self.items) > Len(other.items)
       THEN [raised |-> "None", answer |-> FALSE, self |-> self.items,
             other |-> other.items, rebound |-> {}]
       ELSE with_self(py_iter(self))

\* __eq__ on any two queues: `self is other or self <= other <= self`
py_eq(self, other) ==
    LET with_first(first) ==
            LET with_second(second) ==
                    [raised |-> second.raised, answer |-> second.answer,
                     self |-> second.other, other |-> second.self,
                     rebound |-> first.rebound \cup second.rebound]
            IN IF first.raised # "None" \/ ~first.answer THEN first
               ELSE with_second(
                        py_le([other EXCEPT !.items = first.other],
                              [self EXCEPT !.items = first.self]))
    IN with_first(py_le(self, other))

\* nothing was iterated
NothingIterated == [contents |-> <<>>, yielded |-> <<>>, stopped |-> FALSE]

\* the address of the new list that an object gets when the addresses in
\* `kept` stay in use: the object's own one unless it is kept
new_address(x, kept) ==
    IF (IF x = "a" THEN 1 ELSE Cardinality(Names)) \in kept
    THEN (IF x = "a" THEN Cardinality(Names) ELSE 1)
    ELSE (IF x = "a" THEN 1 ELSE Cardinality(Names))

\* the lists by address once those of queues that no object refers to are
\* freed
collect(objs, lists) ==
    [p \in ListAddresses |->
        IF p \in Addresses /\ ~\E n \in Names : objs[n].items = p
        THEN EmptyList ELSE lists[p]]

\* next(iterator) of the iterator of a list: the element at the index, which
\* moves on by one, StopIteration past the end
list_iterator_next(list, index) ==
    IF index < Len(list)
    THEN [yields |-> <<At(list, index)>>,
          index |-> index + 1, raises |-> "None"]
    ELSE [yields |-> <<>>, index |-> index, raises |-> "StopIteration"]

\* ---------------------------------------------------------- state machine

VARIABLES
    key,        \* the queue's _key: "None" or "abs" (base.py, __init__)
    reverse,    \* the queue's _reverse (base.py, __init__)
    items,      \* the queue's _items, a Python list (base.py, __init__)
    op,         \* the last call made on the queue
    arg,        \* its arguments: at most one value, and for __init__ the
                \* values, the key and the reverse flag given
    ret,        \* what it returned: nothing, one value, or the values iterated
    exc,        \* the exception it raised, "None" without one
    old_items,  \* _items when the call was made
    prev_op,    \* the call made before the last one
    qa,         \* a queue, an operand of operators and comparisons
    qb,         \* another queue, an operand too
    qr,         \* the queue the last operator returned
    bop,        \* the last operator or comparison evaluated on qa and qb
    lhs,        \* its left operand (self): "a" or "b"
    rhs,        \* its right operand (other): "a" or "b"
    bret,       \* what the last comparison returned, as a list
    pa,         \* qa as it was before the last evaluation; of the queue
                \* objects, the object a as it was before the last call
    pb,         \* qb as it was before the last evaluation; of the queue
                \* objects, the object b as it was before the last call
    objects,    \* the queue objects by name: the _key, the _reverse and the
                \* address of the list that _items refers to
    heap,       \* the Python lists by address
    call,       \* the last call made on the queue objects
    iterator,   \* the iterator that iter(queue) returned: the address of
                \* the list it goes through and the index it is at
    iterated    \* the items of the queue when iter(queue) was called, and
                \* what the iterator has yielded since

\* the one queue the calls are made on
queue_vars == <<key, reverse, items, op, arg, ret, exc, old_items, prev_op>>

\* the two queues that are operands
operand_vars == <<qa, qb, qr, bop, lhs, rhs, bret>>

\* the operands as they were
before_vars == <<pa, pb>>

\* the queue objects, their lists and their iterator
object_vars == <<objects, heap, call, iterator, iterated>>

vars == <<key, reverse, items, op, arg, ret, exc, old_items, prev_op,
          qa, qb, qr, bop, lhs, rhs, bret, pa, pb,
          objects, heap, call, iterator, iterated>>

\* no queue: nothing was returned yet
NoQueue == [id |-> "None", key |-> "None", reverse |-> FALSE, items |-> <<>>]

\* the object variables while no queue is taken as an object
NoObjects ==
    /\ objects = [n \in Names |-> NoObject]
    /\ heap = [p \in ListAddresses |-> EmptyList]
    /\ call = NoCall
    /\ iterator = NoIterator
    /\ iterated = NothingIterated

\* the operand variables while no operator or comparison is evaluated
NoEvaluations ==
    /\ qa = NoQueue
    /\ qb = NoQueue
    /\ qr = NoQueue
    /\ bop = "None"
    /\ lhs = "None"
    /\ rhs = "None"
    /\ bret = <<>>
    /\ pa = NoQueue
    /\ pb = NoQueue

\* the operand variables while calls are made on the one queue
NoOperands ==
    /\ NoEvaluations
    /\ NoObjects

\* PriorityQueue(*values, key=key, reverse=reverse)
Init ==
    /\ \E values \in ListsUpTo(Values, MaxLen), k \in Keys, r \in BOOLEAN :
           /\ key = k
           /\ reverse = r
           /\ items = init_items(k, r, values)
           /\ arg = <<values, k, r>>
    /\ NoOperands
    /\ op = "__init__"
    /\ ret = <<>>
    /\ exc = "None"
    /\ old_items = <<>>
    /\ prev_op = "None"

\* what every call leaves alone, and what it records
Call(name, argument) ==
    /\ op' = name
    /\ arg' = argument
    /\ old_items' = items
    /\ prev_op' = op
    /\ UNCHANGED <<key, reverse>>
    /\ UNCHANGED operand_vars
    /\ UNCHANGED before_vars
    /\ UNCHANGED object_vars

Add ==
    \E value \in Values :
        /\ len(items) < MaxLen
        /\ Call("add", <<value>>)
        /\ items' = add_items(key, reverse, items, value)
        /\ ret' = <<>>
        /\ exc' = "None"

Remove ==
    \E value \in Values :
        /\ Call("remove", <<value>>)
        /\ items' = remove_items(key, reverse, items, value)
        /\ ret' = <<>>
        /\ exc' = remove_raises(key, reverse, items, value)

Discard ==
    \E value \in Values :
        /\ Call("discard", <<value>>)
        /\ items' = discard_items(key, reverse, items, value)
        /\ ret' = <<>>
        /\ exc' = discard_raises(key, reverse, items, value)

Peek ==
    /\ Call("peek", <<>>)
    /\ items' = items
    /\ ret' = peek_returns(key, reverse, items)
    /\ exc' = peek_raises(items)

Pop ==
    /\ Call("pop", <<>>)
    /\ items' = pop_items(key, reverse, items)
    /\ ret' = pop_returns(key, reverse, items)
    /\ exc' = pop_raises(items)

Clear ==
    /\ Call("clear", <<>>)
    /\ items' = clear_items(items)
    /\ ret' = <<>>
    /\ exc' = "None"

\* list(queue): __iter__ and the iterator it returns, run to the end
Iter ==
    /\ Call("__iter__", <<>>)
    /\ items' = iter_items(key, reverse, items)
    /\ ret' = iter_yields(key, reverse, items)
    /\ exc' = "None"

\* list(reversed(queue)): the list is replaced by its sorted copy as in
\* __iter__, the values are yielded back to front
Reversed ==
    /\ Call("__reversed__", <<>>)
    /\ items' = iter_items(key, reverse, items)
    /\ ret' = backwards(iter_yields(key, reverse, items))
    /\ exc' = "None"

Next ==
    \/ Add
    \/ Remove
    \/ Discard
    \/ Peek
    \/ Pop
    \/ Clear
    \/ Iter
    \/ Reversed

Spec == Init /\ [][Next]_vars

\* ------------------------------------------- state machine of two operands

\* the queue variables while operators are evaluated on the operands
NoCalls ==
    /\ key = "None"
    /\ reverse = FALSE
    /\ items = <<>>
    /\ op = "None"
    /\ arg = <<>>
    /\ ret = <<>>
    /\ exc = "None"
    /\ old_items = <<>>
    /\ prev_op = "None"

\* the names of the operands
Operands == {"a", "b"}

\* the queue an operand's name stands for
Operand(name) == IF name = "a" THEN qa ELSE qb

\* a number of its own for every list of values
RECURSIVE values_code(_)
values_code(values) ==
    IF values = <<>> THEN 0
    ELSE (values[1] + MaxVal + 1)
         + (2 * MaxVal + 2) * values_code(Tail(values))

\* a number of its own for every content of a queue
queue_code(q) ==
    4 * values_code(values_of(q.key, q.reverse, q.items))
    + (IF q.key = "abs" THEN 2 ELSE 0) + (IF q.reverse THEN 1 ELSE 0)

\* two queues, each constructed from its values, key and reverse flag; of
\* the two ways to name the same two queues "a" and "b" one is taken, and
\* the operators below take either of them as the left operand
OperandsInit ==
    /\ NoCalls
    /\ \E values \in ListsUpTo(Values, MaxOperandLen),
          k \in Keys, r \in BOOLEAN :
           qa = NewQueue("a", k, r, values)
    /\ \E values \in ListsUpTo(Values, MaxOperandLen),
          k \in Keys, r \in BOOLEAN :
           qb = NewQueue("b", k, r, values)
    /\ queue_code(qa) <= queue_code(qb)
    /\ qr = NoQueue
    /\ bop = "None"
    /\ lhs = "None"
    /\ rhs = "None"
    /\ bret = <<>>
    /\ pa = NoQueue
    /\ pb = NoQueue
    /\ NoObjects

\* what evaluating `x name y` records, and what it does to the operands:
\* the lists of those that were iterated are sorted
Evaluate(name, x, y, self_iterated, other_iterated) ==
    /\ bop' = name
    /\ lhs' = x
    /\ rhs' = y
    /\ qa' = Sorted(qa, \/ x = "a" /\ self_iterated
                        \/ y = "a" /\ other_iterated)
    /\ qb' = Sorted(qb, \/ x = "b" /\ self_iterated
                        \/ y = "b" /\ other_iterated)
    /\ UNCHANGED queue_vars
    /\ UNCHANGED before_vars
    /\ UNCHANGED object_vars

\* x <= y
Le ==
    \E x \in Operands, y \in Operands :
        /\ Evaluate("__le__", x, y,
                    le_iterates(Operand(x), Operand(y)),
                    le_iterates(Operand(x), Operand(y)))
        /\ bret' = <<le_returns(Operand(x), Operand(y))>>
        /\ qr' = NoQueue

\* x == y
Eq ==
    \E x \in Operands, y \in Operands :
        /\ Evaluate("__eq__", x, y,
                    eq_iterates(Operand(x), Operand(y)),
                    eq_iterates(Operand(x), Operand(y)))
        /\ bret' = <<eq_returns(Operand(x), Operand(y))>>
        /\ qr' = NoQueue

\* x & y
And ==
    \E x \in Operands, y \in Operands :
        /\ Evaluate("__and__", x, y, TRUE,
                    other_is_iterated(Operand(x), Operand(y)))
        /\ bret' = <<>>
        /\ qr' = and_returns("r", Operand(x), Operand(y))

OperandsNext ==
    \/ Le
    \/ Eq
    \/ And

OperandsSpec == OperandsInit /\ [][OperandsNext]_vars

\* ------------------------------------- state machine of the set operators

\* no operator is being evaluated: the result of the last one is out of use
Ready == bop = "None"

\* x | y
Or ==
    \E x \in Operands, y \in Operands :
        /\ Evaluate("__or__", x, y, FALSE, FALSE)
        /\ bret' = <<>>
        /\ qr' = or_returns("r", Operand(x), Operand(y))

\* x - y
Sub ==
    \E x \in Operands, y \in Operands :
        /\ Evaluate("__sub__", x, y, TRUE,
                    other_is_iterated(Operand(x), Operand(y)))
        /\ bret' = <<>>
        /\ qr' = sub_returns("r", Operand(x), Operand(y))

\* x ^ y
Xor ==
    \E x \in Operands, y \in Operands :
        /\ Evaluate("__xor__", x, y,
                    xor_subtracts(Operand(x), Operand(y)),
                    xor_subtracts(Operand(x), Operand(y)))
        /\ bret' = <<>>
        /\ qr' = xor_returns("r", Operand(x), Operand(y))

\* the caller lets go of what the last operator returned
Release ==
    /\ ~Ready
    /\ qr' = NoQueue
    /\ bop' = "None"
    /\ lhs' = "None"
    /\ rhs' = "None"
    /\ bret' = <<>>
    /\ UNCHANGED <<qa, qb>>
    /\ UNCHANGED queue_vars
    /\ UNCHANGED before_vars
    /\ UNCHANGED object_vars

\* one operator at a time is evaluated on the operands, as the last one left
\* them
OperatorsNext ==
    \/ Ready /\ And
    \/ Ready /\ Or
    \/ Ready /\ Sub
    \/ Ready /\ Xor
    \/ Release

OperatorsSpec == OperandsInit /\ [][OperatorsNext]_vars

\* ------------------- state machine of a queue and the queues it is met with

\* a queue constructed from its values, key and reverse flag; no other queue
\* yet
EvaluationInit ==
    /\ NoCalls
    /\ \E values \in ListsUpTo(Values, MaxLen), k \in Keys, r \in BOOLEAN :
           qa = NewQueue("a", k, r, values)
    /\ qb = NoQueue
    /\ qr = NoQueue
    /\ bop = "None"
    /\ lhs = "None"
    /\ rhs = "None"
    /\ bret = <<>>
    /\ pa = NoQueue
    /\ pb = NoQueue
    /\ NoObjects

\* the queues that the queue is evaluated against: itself, and every queue
\* newly constructed from a few values
Others ==
    {qa} \cup {NewQueue("b", k, r, values) :
                  values \in ListsUpTo(Values, MaxOtherLen),
                  k \in Keys, r \in BOOLEAN}

\* the pairs (self, other) that the queue makes with one of the others, on
\* either side
Pairs ==
    {<<qa, other>> : other \in Others} \cup {<<other, qa>> : other \in Others}

\* the one of self and other that is not the queue, if any
TheOther(self, other) ==
    IF self.id = "b" THEN self ELSE IF other.id = "b" THEN other ELSE NoQueue

\* what evaluating `name` on self and other records, and what it does to
\* them: the lists of those that were iterated are sorted
Evaluated(name, self, other, self_iterated, other_iterated) ==
    /\ bop' = name
    /\ lhs' = self.id
    /\ rhs' = other.id
    /\ pa' = qa
    /\ pb' = TheOther(self, other)
    /\ UNCHANGED object_vars
    /\ qa' = Sorted(qa, \/ self.id = "a" /\ self_iterated
                        \/ other.id = "a" /\ other_iterated)
    /\ qb' = Sorted(TheOther(self, other),
                    \/ self.id = "b" /\ self_iterated
                    \/ other.id = "b" /\ other_iterated)
    /\ UNCHANGED queue_vars

\* what a comparison records: its answer, and no queue
Answered(answer) ==
    /\ bret' = <<answer>>
    /\ qr' = NoQueue

\* what an operator records: the queue it returned, and no answer
Built(queue) ==
    /\ bret' = <<>>
    /\ qr' = queue

\* self == other
EqOf ==
    \E p \in Pairs :
        /\ Evaluated("__eq__", p[1], p[2],
                     eq_iterates(p[1], p[2]), eq_iterates(p[1], p[2]))
        /\ Answered(eq_returns(p[1], p[2]))

\* self <= other
LeOf ==
    \E p \in Pairs :
        /\ Evaluated("__le__", p[1], p[2],
                     le_iterates(p[1], p[2]), le_iterates(p[1], p[2]))
        /\ Answered(le_returns(p[1], p[2]))

\* self < other
LtOf ==
    \E p \in Pairs :
        /\ Evaluated("__lt__", p[1], p[2],
                     lt_iterates(p[1], p[2]), lt_iterates(p[1], p[2]))
        /\ Answered(lt_returns(p[1], p[2]))

\* self >= other
GeOf ==
    \E p \in Pairs :
        /\ Evaluated("__ge__", p[1], p[2],
                     ge_iterates(p[1], p[2]), ge_iterates(p[1], p[2]))
        /\ Answered(ge_returns(p[1], p[2]))

\* self > other
GtOf ==
    \E p \in Pairs :
        /\ Evaluated("__gt__", p[1], p[2],
                     gt_iterates(p[1], p[2]), gt_iterates(p[1], p[2]))
        /\ Answered(gt_returns(p[1], p[2]))

\* self.isdisjoint(other)
IsDisjointOf ==
    \E p \in Pairs :
        /\ Evaluated("isdisjoint", p[1], p[2], FALSE, FALSE)
        /\ Answered(isdisjoint_returns(p[1], p[2]))

\* self & other
AndOf ==
    \E p \in Pairs :
        /\ Evaluated("__and__", p[1], p[2],
                     TRUE, other_is_iterated(p[1], p[2]))
        /\ Built(and_returns("r", p[1], p[2]))

\* self | other
OrOf ==
    \E p \in Pairs :
        /\ Evaluated("__or__", p[1], p[2], FALSE, FALSE)
        /\ Built(or_returns("r", p[1], p[2]))

\* self - other
SubOf ==
    \E p \in Pairs :
        /\ Evaluated("__sub__", p[1], p[2],
                     TRUE, other_is_iterated(p[1], p[2]))
        /\ Built(sub_returns("r", p[1], p[2]))

\* self ^ other
XorOf ==
    \E p \in Pairs :
        /\ Evaluated("__xor__", p[1], p[2],
                     xor_subtracts(p[1], p[2]), xor_subtracts(p[1], p[2]))
        /\ Built(xor_returns("r", p[1], p[2]))

\* the caller lets go of the other queue and of what was returned
Forget ==
    /\ ~Ready
    /\ qb' = NoQueue
    /\ qr' = NoQueue
    /\ bop' = "None"
    /\ lhs' = "None"
    /\ rhs' = "None"
    /\ bret' = <<>>
    /\ pa' = NoQueue
    /\ pb' = NoQueue
    /\ UNCHANGED qa
    /\ UNCHANGED queue_vars
    /\ UNCHANGED object_vars

\* one evaluation at a time, on the queue as the last one left it
EvaluationNext ==
    \/ Ready /\ EqOf
    \/ Ready /\ LeOf
    \/ Ready /\ LtOf
    \/ Ready /\ GeOf
    \/ Ready /\ GtOf
    \/ Ready /\ IsDisjointOf
    \/ Ready /\ AndOf
    \/ Ready /\ OrOf
    \/ Ready /\ SubOf
    \/ Ready /\ XorOf
    \/ Forget

EvaluationSpec == EvaluationInit /\ [][EvaluationNext]_vars

\* --------------------------------------- state machine of the queue objects

\* the name is bound to a queue object
Present(x) == objects[x].items \in Addresses

\* the queue that the name is bound to, with the list its _items refers to
Queue(x) ==
    IF Present(x)
    THEN [id |-> x, key |-> objects[x].key, reverse |-> objects[x].reverse,
          items |-> heap[objects[x].items]]
    ELSE NoQueue

\* the list holds nothing but items that _value_to_item of a queue of this
\* key and reverse flag makes of integers
SoundItems(k, rev, list) ==
    \A i \in DOMAIN list :
        /\ type_of(list[i]) = item_class(k, rev)
        /\ list[i].reversers = (IF item_class(k, rev) = "SimpleReverser"
                                THEN 1 ELSE 0)
        /\ list[i].base = (IF item_class(k, rev) = "SimpleReverser"
                           THEN "int" ELSE item_class(k, rev))

\* the list of the object holds items of the object's own making, or none
Sound(x) == SoundItems(objects[x].key, objects[x].reverse, Queue(x).items)

\* an item of a queue's own making as the operators on operands have it
Item(item) ==
    IF type_of(item) = "int" THEN item.value
    ELSE IF type_of(item) = "tuple" THEN <<item.key, item.value>>
    ELSE IF type_of(item) = "SimpleReverser" THEN SimpleReverser(item.value)
    ELSE ComplexReverser(<<item.key, item.value>>)

\* a queue whose list is sound as an operand
Native(q) ==
    [q EXCEPT !.items = [i \in DOMAIN q.items |-> Item(q.items[i])]]

\* the caller is done with the last call
Idle == call.name = "None"

\* what a call records: itself, and the objects as they were
Called(name, x, y, value, returned, answered, raised) ==
    /\ call' = [name |-> name, self |-> x, other |-> y, value |-> value,
                returned |-> returned, answered |-> answered,
                raised |-> raised,
                shared |-> /\ Present("a")
                           /\ objects["a"].items = objects["b"].items]
    /\ pa' = Queue("a")
    /\ pb' = Queue("b")
    /\ UNCHANGED queue_vars
    /\ UNCHANGED operand_vars

\* the call changes the list of x where it is: every object that refers to
\* the list has the new content
InPlace(x, list) ==
    /\ heap' = [heap EXCEPT ![objects[x].items] = list]
    /\ UNCHANGED objects

\* the objects and the lists once _items of the objects in xs are bound to
\* new lists, each to its own, with the items that `lists` gives for it; the
\* other objects keep theirs
Rebound(xs, lists) ==
    LET kept == {objects[n].items : n \in Names \ xs}
        objs == [n \in Names |->
                    IF n \in xs
                    THEN [objects[n] EXCEPT !.items = new_address(n, kept)]
                    ELSE objects[n]]
    IN [objects |-> objs,
        heap |-> collect(objs,
                     [p \in ListAddresses |->
                         IF "a" \in xs /\ objs["a"].items = p THEN lists["a"]
                         ELSE IF "b" \in xs /\ objs["b"].items = p
                              THEN lists["b"]
                         ELSE heap[p]])]

\* the call binds _items of the objects in xs to new lists
Rebind(xs, lists) ==
    /\ objects' = Rebound(xs, lists).objects
    /\ heap' = Rebound(xs, lists).heap

\* the call binds _items of x to the list of y
Share(x, y) ==
    LET objs == [objects EXCEPT ![x].items = objects[y].items]
    IN /\ objects' = objs
       /\ heap' = collect(objs, heap)

\* what iter(self) and iter(other) inside a call have bound by the time the
\* call returns or raises
Iterated(x, y, done) ==
    IF done.rebound = {}
    THEN UNCHANGED <<objects, heap>>
    ELSE Rebind(done.rebound,
                [n \in Names |-> IF n = x THEN done.self ELSE done.other])

\* `self._items = (self op other)._items`: the assignment is made when the
\* operator has returned
Assigned(x, y, done) ==
    IF done.raised = "None"
    THEN Rebind(done.rebound \cup {x},
                [n \in Names |-> IF n = x THEN done.list ELSE done.other])
    ELSE Iterated(x, y, done)

\* no item in the list is wrapped in more reversers than the model follows
Modelled(list) == \A i \in DOMAIN list : list[i].reversers <= MaxReversers

\* x = PriorityQueue(*values, key=k, reverse=rev): the object, and its list
Constructed(x, k, rev) ==
    [key |-> k, reverse |-> rev, items |-> new_address(x, {})]

\* two objects are constructed, each from its values, key and reverse flag
TwoObjectsInit ==
    /\ NoCalls
    /\ NoEvaluations
    /\ \E va \in ListsUpTo(Values, MaxOperandLen), ka \in Keys, ra \in BOOLEAN,
          vb \in ListsUpTo(Values, MaxOperandLen), kb \in Keys, rb \in BOOLEAN :
           /\ objects = [n \in Names |->
                            IF n = "a" THEN Constructed("a", ka, ra)
                                       ELSE Constructed("b", kb, rb)]
           /\ heap = [p \in ListAddresses |->
                         IF p = new_address("a", {})
                         THEN py_init(ka, ra, PyInts(va)).list
                         ELSE IF p = new_address("b", {})
                         THEN py_init(kb, rb, PyInts(vb)).list
                         ELSE EmptyList]
    /\ call = NoCall
    /\ iterator = NoIterator
    /\ iterated = NothingIterated

\* one object is constructed from its values, key and reverse flag
OneObjectInit ==
    /\ NoCalls
    /\ NoEvaluations
    /\ \E va \in ListsUpTo(Values, MaxOperandLen), ka \in Keys, ra \in BOOLEAN :
           /\ objects = [n \in Names |->
                            IF n = "a" THEN Constructed("a", ka, ra)
                                       ELSE NoObject]
           /\ heap = [p \in ListAddresses |->
                         IF p = new_address("a", {})
                         THEN py_init(ka, ra, PyInts(va)).list
                         ELSE EmptyList]
    /\ call = NoCall
    /\ iterator = NoIterator
    /\ iterated = NothingIterated

\* x.add(value): the item is on the list when heappush raises
ObjectAdd ==
    \E x \in Names, value \in Values :
        LET pushed == py_heappush(Queue(x).items,
                                  py_value_to_item(Queue(x).key,
                                                   Queue(x).reverse,
                                                   PyInt(value)))
        IN /\ Present(x)
           /\ len(Queue(x).items) < MaxOperandLen
           /\ InPlace(x, pushed.list)
           /\ Called("add", x, "None", <<value>>, <<>>, <<>>, pushed.raised)
           /\ UNCHANGED <<iterator, iterated>>

\* what remove and discard do to the list: list.remove raises ValueError
\* and leaves the list, or the list is heapified without the item
removed(q, value) ==
    LET item == py_value_to_item(q.key, q.reverse, PyInt(value))
    IN IF list_index(q.items, item) < 0
       THEN Raises(q.items, "KeyError")
       ELSE py_heapify(list_remove(q.items, item))

\* x.remove(value)
ObjectRemove ==
    \E x \in Names, value \in Values :
        /\ Present(x)
        /\ InPlace(x, removed(Queue(x), value).list)
        /\ Called("remove", x, "None", <<value>>, <<>>, <<>>,
                  removed(Queue(x), value).raised)
        /\ UNCHANGED <<iterator, iterated>>

\* x.discard(value): the KeyError of remove is caught
ObjectDiscard ==
    \E x \in Names, value \in Values :
        /\ Present(x)
        /\ InPlace(x, removed(Queue(x), value).list)
        /\ Called("discard", x, "None", <<value>>, <<>>, <<>>,
                  IF removed(Queue(x), value).raised = "KeyError"
                  THEN "None" ELSE removed(Queue(x), value).raised)
        /\ UNCHANGED <<iterator, iterated>>

\* what pop does: heappop, whose IndexError becomes KeyError, then
\* _item_to_value on the item taken off
popped(q) ==
    LET taken == py_heappop(q.items)
    IN IF taken.raised = "IndexError"
       THEN [list |-> q.items, value |-> <<>>, raised |-> "KeyError"]
       ELSE IF taken.raised # "None"
       THEN [list |-> taken.list, value |-> <<>>, raised |-> taken.raised]
       ELSE IF item_to_value_raises(q.key, q.reverse, taken.item[1]) # "None"
       THEN [list |-> taken.list, value |-> <<>>,
             raised |-> item_to_value_raises(q.key, q.reverse,
                                             taken.item[1])]
       ELSE [list |-> taken.list,
             value |-> <<py_item_to_value(q.key, q.reverse, taken.item[1])>>,
             raised |-> "None"]

\* x.pop()
ObjectPop ==
    \E x \in Names :
        /\ Present(x)
        /\ InPlace(x, popped(Queue(x)).list)
        /\ Called("pop", x, "None", <<>>, popped(Queue(x)).value, <<>>,
                  popped(Queue(x)).raised)
        /\ UNCHANGED <<iterator, iterated>>

\* x.clear()
ObjectClear ==
    \E x \in Names :
        /\ Present(x)
        /\ InPlace(x, EmptyList)
        /\ Called("clear", x, "None", <<>>, <<>>, <<>>, "None")
        /\ UNCHANGED <<iterator, iterated>>

\* what __iter__ and __reversed__ bind
Sorted_anew(x) ==
    IF py_iter(Queue(x)).rebound
    THEN Rebind({x}, [n \in Names |-> py_iter(Queue(x)).items])
    ELSE UNCHANGED <<objects, heap>>

\* list(x): __iter__ binds _items to the sorted copy of the list
ObjectList ==
    \E x \in Names :
        /\ Present(x)
        /\ Sorted_anew(x)
        /\ Called("list", x, "None", <<>>, py_iter(Queue(x)).values, <<>>,
                  py_iter(Queue(x)).raised)
        /\ UNCHANGED <<iterator, iterated>>

\* list(reversed(x)): __reversed__ binds _items as __iter__ does
ObjectReversed ==
    \E x \in Names :
        /\ Present(x)
        /\ Sorted_anew(x)
        /\ Called("reversed", x, "None", <<>>,
                  backwards(py_iter(Queue(x)).values), <<>>,
                  py_iter(Queue(x)).raised)
        /\ UNCHANGED <<iterator, iterated>>

\* copy.copy(x): another object of the same _key, _reverse and _items
ObjectCopy ==
    \E x \in Names :
        /\ Present(x)
        /\ ~Present(Other(x))
        /\ objects' = [objects EXCEPT ![Other(x)] = objects[x]]
        /\ UNCHANGED heap
        /\ Called("__copy__", x, Other(x), <<>>, <<>>, <<>>, "None")
        /\ UNCHANGED <<iterator, iterated>>

\* x == y: where it iterates, the objects are bound to sorted copies of
\* their lists
ObjectEq ==
    \E x \in Names, y \in Names :
        LET done == py_eq(Queue(x), Queue(y))
        IN /\ Present(x)
           /\ Present(y)
           /\ Iterated(x, y, done)
           /\ Called("__eq__", x, y, <<>>, <<>>,
                     IF done.raised = "None" THEN <<done.answer>> ELSE <<>>,
                     done.raised)
           /\ UNCHANGED <<iterator, iterated>>

\* x &= y: `self._items = (self & other)._items`
ObjectIAnd ==
    \E x \in Names, y \in Names :
        LET done == py_and_or_sub("__and__", Queue(x), Queue(y))
        IN /\ Present(x)
           /\ Present(y)
           /\ Assigned(x, y, done)
           /\ Called("__iand__", x, y, <<>>, <<>>, <<>>, done.raised)
           /\ UNCHANGED <<iterator, iterated>>

\* x |= y: `self._items = (self | other)._items`
ObjectIOr ==
    \E x \in Names, y \in Names :
        LET done == py_or(Queue(x), Queue(y))
        IN /\ Present(x)
           /\ Present(y)
           /\ len(Queue(x).items) + len(Queue(y).items) <= MaxOperandLen
           /\ done.raised = "None" => Modelled(done.list)
           /\ Assigned(x, y, done)
           /\ Called("__ior__", x, y, <<>>, <<>>, <<>>, done.raised)
           /\ UNCHANGED <<iterator, iterated>>

\* x -= y: `self._items = (self - other)._items`
ObjectISub ==
    \E x \in Names, y \in Names :
        LET done == py_and_or_sub("__sub__", Queue(x), Queue(y))
        IN /\ Present(x)
           /\ Present(y)
           /\ Assigned(x, y, done)
           /\ Called("__isub__", x, y, <<>>, <<>>, <<>>, done.raised)
           /\ UNCHANGED <<iterator, iterated>>

\* x ^= y: `self._items = (self ^ other)._items`, where `self ^ other` is
\* other itself when self is empty, self itself when other is empty, and
\* else a new queue made from two subtractions that iterate both objects
ObjectIXor ==
    \E x \in Names, y \in Names :
        LET done == py_xor(Queue(x), Queue(y))
        IN /\ Present(x)
           /\ Present(y)
           /\ len(Queue(x).items) + len(Queue(y).items) <= MaxOperandLen
           /\ IF len(Queue(x).items) = 0
              THEN /\ Share(x, y)
                   /\ Called("__ixor__", x, y, <<>>, <<>>, <<>>, "None")
              ELSE IF len(Queue(y).items) = 0
              THEN /\ Share(x, x)
                   /\ Called("__ixor__", x, y, <<>>, <<>>, <<>>, "None")
              ELSE /\ done.raised = "None" => Modelled(done.list)
                   /\ Assigned(x, y, done)
                   /\ Called("__ixor__", x, y, <<>>, <<>>, <<>>, done.raised)
           /\ UNCHANGED <<iterator, iterated>>

\* iter(x): __iter__ binds _items to the sorted copy of the list and returns
\* an iterator of the list that _values returns, `iter(self._values)`
ObjectIter ==
    \E x \in Names :
        LET returned(it) ==
                LET bound(now) ==
                        /\ objects' = now.objects
                        /\ IF it.raised = "None"
                           THEN /\ heap' =
                                       [now.heap EXCEPT
                                           ![py_values_list(
                                                 now.objects[x].items)] =
                                               it.values]
                                /\ iterator' =
                                       [of |-> x,
                                        list |-> py_values_list(
                                                     now.objects[x].items),
                                        index |-> 0]
                                /\ iterated' =
                                       [contents |-> Queue(x).items,
                                        yielded |-> <<>>,
                                        stopped |-> FALSE]
                           ELSE /\ heap' = now.heap
                                /\ UNCHANGED <<iterator, iterated>>
                IN /\ bound(IF it.rebound
                            THEN Rebound({x}, [n \in Names |-> it.items])
                            ELSE [objects |-> objects, heap |-> heap])
                   /\ Called("__iter__", x, "None", <<>>, <<>>, <<>>,
                             it.raised)
        IN /\ Present(x)
           /\ returned(py_iter(Queue(x)))

\* next(iterator): the iterator reads the list it was made of
IteratorNext ==
    LET done(step) ==
            /\ iterator' = [iterator EXCEPT !.index = step.index]
            /\ iterated' = [iterated EXCEPT
                               !.yielded = @ \o step.yields,
                               !.stopped = step.raises # "None"]
            /\ Called("__next__", iterator.of, "None", <<>>,
                      step.yields, <<>>, step.raises)
    IN /\ iterator.of # "None"
       /\ UNCHANGED <<objects, heap>>
       /\ done(list_iterator_next(heap[iterator.list], iterator.index))

\* the caller is done with the call
ObjectReturn ==
    /\ ~Idle
    /\ call' = NoCall
    /\ pa' = NoQueue
    /\ pb' = NoQueue
    /\ UNCHANGED <<objects, heap, iterator, iterated>>
    /\ UNCHANGED queue_vars
    /\ UNCHANGED operand_vars

\* two queues, calls on either of them and in-place operators between them
SharingNext ==
    \/ Idle /\ ObjectAdd
    \/ Idle /\ ObjectRemove
    \/ Idle /\ ObjectDiscard
    \/ Idle /\ ObjectPop
    \/ Idle /\ ObjectClear
    \/ Idle /\ ObjectList
    \/ Idle /\ ObjectReversed
    \/ Idle /\ ObjectEq
    \/ Idle /\ ObjectIAnd
    \/ Idle /\ ObjectIOr
    \/ Idle /\ ObjectISub
    \/ Idle /\ ObjectIXor
    \/ ObjectReturn

SharingSpec == TwoObjectsInit /\ [][SharingNext]_vars

\* a queue and its shallow copy, compared and called
CopyNext ==
    \/ Idle /\ ObjectCopy
    \/ Idle /\ ObjectEq
    \/ Idle /\ ObjectAdd
    \/ Idle /\ ObjectPop
    \/ Idle /\ ObjectList
    \/ Idle /\ ObjectReversed
    \/ ObjectReturn

CopySpec == OneObjectInit /\ [][CopyNext]_vars

\* a queue, an iterator over it, and calls on the queue meanwhile
IterationNext ==
    \/ Idle /\ ObjectIter
    \/ Idle /\ IteratorNext
    \/ Idle /\ ObjectAdd
    \/ Idle /\ ObjectRemove
    \/ Idle /\ ObjectDiscard
    \/ Idle /\ ObjectPop
    \/ Idle /\ ObjectClear
    \/ Idle /\ ObjectReversed
    \/ ObjectReturn

IterationSpec == OneObjectInit /\ [][IterationNext]_vars

\* ------------------------------------------------- vocabulary of the claims

\* how many times x occurs in list
Count(list, x) == Cardinality({i \in DOMAIN list : list[i] = x})

\* the two lists hold the same elements with the same multiplicities
SameElements(xs, ys) ==
    /\ Len(xs) = Len(ys)
    /\ \A i \in DOMAIN xs : Count(xs, xs[i]) = Count(ys, xs[i])

\* priority key a is greater than priority key b under the queue's ordering
KeyGreater(rev, a, b) == IF rev THEN a < b ELSE a > b

\* the binary-heap property of a list of items, positions counted from 0
IsHeap(k, rev, its) ==
    \A i \in 0..(Len(its) - 1) :
        \A c \in {2 * i + 1, 2 * i + 2} :
            c < Len(its) => ~item_lt(k, rev, At(its, c), At(its, i))

\* the values of the list hold at least two different priority keys
TwoKeys(k, rev, its) ==
    \E i, j \in DOMAIN its :
        key_of(k, item_to_value(k, rev, its[i]))
            # key_of(k, item_to_value(k, rev, its[j]))

\* ----------------------------------------------------------------- claims

\* C1: whenever the queue is not empty, whatever calls led there, peek()
\* returns a value that is in the queue and whose priority key is not
\* greater, under the queue's ordering, than that of any contained value.
C1_PeekIsLeast ==
    items # <<>> =>
        /\ peek_raises(items) = "None"
        /\ Len(peek_returns(key, reverse, items)) = 1
        /\ contains(key, reverse, items, peek_returns(key, reverse, items)[1])
        /\ \A i \in DOMAIN items :
               ~KeyGreater(reverse,
                           key_of(key, peek_returns(key, reverse, items)[1]),
                           key_of(key, values_of(key, reverse, items)[i]))

\* a peek that answered, right after a removal, on a queue whose values
\* differ in their priority keys
C1_Witness ==
    /\ op = "peek"
    /\ prev_op = "remove"
    /\ exc = "None"
    /\ Len(ret) = 1
    /\ Len(items) >= 2
    /\ TwoKeys(key, reverse, items)

\* C2: in every state reached by construction and any calls of add, remove,
\* discard, pop, clear and iteration, the list of items is a binary heap
\* under the item order and len(queue) is the number of items in it.
C2_HeapInvariant ==
    /\ IsHeap(key, reverse, items)
    /\ len(items) = Cardinality(DOMAIN items)

\* a full queue with different priority keys, an item just added to it
C2_Witness ==
    /\ op = "add"
    /\ Len(items) = MaxLen
    /\ TwoKeys(key, reverse, items)
    /\ items # old_items \o <<value_to_item(key, reverse, arg[1])>>

\* C3: pop() on a non-empty queue returns what peek() would have returned,
\* takes exactly one occurrence of that value out of the queue, and leaves no
\* item that is less than the popped value's item.
C3_PopTakesFront ==
    (op = "pop" /\ old_items # <<>>) =>
        /\ exc = "None"
        /\ ret = peek_returns(key, reverse, old_items)
        /\ len(items) = len(old_items) - 1
        /\ SameElements(values_of(key, reverse, items) \o ret,
                        values_of(key, reverse, old_items))
        /\ \A i \in DOMAIN items :
               ~item_lt(key, reverse, items[i],
                        value_to_item(key, reverse, ret[1]))

\* a pop from a queue of three values with different priority keys
C3_Witness ==
    /\ op = "pop"
    /\ Len(old_items) = 3
    /\ Len(ret) = 1
    /\ TwoKeys(key, reverse, old_items)

\* C4: iterating yields len(queue) values, the contained values with their
\* multiplicities, with priority keys non-decreasing along the sequence when
\* reverse is false and non-increasing when it is true.
C4_IterationSorted ==
    op = "__iter__" =>
        /\ Len(ret) = len(items)
        /\ SameElements(ret, values_of(key, reverse, old_items))
        /\ SameElements(ret, values_of(key, reverse, items))
        /\ \A i, j \in DOMAIN ret :
               i < j => ~KeyGreater(reverse, key_of(key, ret[i]),
                                    key_of(key, ret[j]))

\* an iteration over a list that was not in sorted order
C4_Witness ==
    /\ op = "__iter__"
    /\ Len(ret) = 3
    /\ items # old_items
    /\ TwoKeys(key, reverse, items)

\* C5: an iteration that follows an iteration yields the same sequence, and
\* an iteration changes neither the length, nor the contained values and
\* their multiplicities, nor key, nor reverse.
C5_IterationRepeatable ==
    [][op' = "__iter__" =>
          /\ (op = "__iter__" => ret' = ret)
          /\ len(items') = len(items)
          /\ SameElements(values_of(key', reverse', items'),
                          values_of(key, reverse, items))
          /\ key' = key
          /\ reverse' = reverse]_vars

\* two iterations in a row over two or more values
C5_Witness ==
    /\ op = "__iter__"
    /\ prev_op = "__iter__"
    /\ Len(ret) >= 2
    /\ TwoKeys(key, reverse, items)

\* C6: peek() and pop() on an empty queue raise one and the same exception
\* and return nothing, and the queue is still empty afterwards, with the same
\* key and reverse.
C6_EmptyErrorsAgree ==
    [][(op' \in {"peek", "pop"} /\ items = <<>>) =>
          /\ exc' # "None"
          /\ exc' = peek_raises(items)
          /\ exc' = pop_raises(items)
          /\ ret' = <<>>
          /\ items' = <<>>
          /\ key' = key
          /\ reverse' = reverse]_vars

\* a pop that failed on a queue emptied by the call before it
C6_Witness ==
    /\ op = "pop"
    /\ prev_op \in {"pop", "remove", "discard", "clear"}
    /\ old_items = <<>>
    /\ exc # "None"

\* C7: pop() on an empty queue raises IndexError.
C7_PopEmptyRaisesIndexError ==
    (op = "pop" /\ old_items = <<>>) => exc = "IndexError"

\* C8: peek() on an empty queue raises ValueError.
C8_PeekEmptyRaisesValueError ==
    (op = "peek" /\ old_items = <<>>) => exc = "ValueError"

\* C9: remove(value) on a queue without value raises KeyError and leaves the
\* list of items as it was: the same items at the same positions, still a
\* heap.
C9_RemoveAbsent ==
    (op = "remove" /\ ~contains(key, reverse, old_items, arg[1])) =>
        /\ exc = "KeyError"
        /\ items = old_items
        /\ len(items) = len(old_items)
        /\ IsHeap(key, reverse, items)

\* a failed removal of a value whose priority key is that of a contained
\* value
C9_Witness ==
    /\ op = "remove"
    /\ exc = "KeyError"
    /\ Len(old_items) >= 2
    /\ ~contains(key, reverse, old_items, arg[1])
    /\ \E i \in DOMAIN old_items :
           key_of(key, values_of(key, reverse, old_items)[i])
               = key_of(key, arg[1])

\* C10: remove(value) on a queue with value takes out exactly one item, one
\* whose priority key and value are those of value; every other item stays,
\* those with the same priority key and another value and the further
\* occurrences of value included.
C10_RemovePresent ==
    (op = "remove" /\ contains(key, reverse, old_items, arg[1])) =>
        /\ exc = "None"
        /\ len(items) = len(old_items) - 1
        /\ \A i \in DOMAIN old_items :
               Count(items, old_items[i])
                   = Count(old_items, old_items[i])
                       - (IF old_items[i]
                                 = value_to_item(key, reverse, arg[1])
                          THEN 1 ELSE 0)

\* a removal that left a second occurrence of the value and a value with
\* the same priority key
C10_Witness ==
    /\ op = "remove"
    /\ exc = "None"
    /\ Len(items) = Len(old_items) - 1
    /\ contains(key, reverse, items, arg[1])
    /\ \E i \in DOMAIN items :
           /\ values_of(key, reverse, items)[i] # arg[1]
           /\ key_of(key, values_of(key, reverse, items)[i])
                  = key_of(key, arg[1])

\* C11: discard(value) never raises; it takes one occurrence of a contained
\* value out of the queue and leaves a queue without the value as it was, so
\* the length goes down by one exactly when the value was contained.
C11_Discard ==
    op = "discard" =>
        /\ exc = "None"
        /\ len(items) = len(old_items)
               - (IF contains(key, reverse, old_items, arg[1]) THEN 1 ELSE 0)
        /\ \A v \in Values :
               Count(values_of(key, reverse, items), v)
                   = Count(values_of(key, reverse, old_items), v)
                       - (IF v = arg[1]
                             /\ contains(key, reverse, old_items, v)
                          THEN 1 ELSE 0)
        /\ ~contains(key, reverse, old_items, arg[1]) => items = old_items

\* a discard of a value the queue does not hold, but holds another value
\* with the same priority key
C11_Witness ==
    /\ op = "discard"
    /\ Len(old_items) >= 2
    /\ ~contains(key, reverse, old_items, arg[1])
    /\ \E i \in DOMAIN old_items :
           key_of(key, values_of(key, reverse, old_items)[i])
               = key_of(key, arg[1])

\* C12: add(value) never fails; afterwards the value is contained, the length
\* is one more, and every value is contained as often as before, the added
\* value once more.
C12_Add ==
    op = "add" =>
        /\ exc = "None"
        /\ contains(key, reverse, items, arg[1])
        /\ len(items) = len(old_items) + 1
        /\ \A v \in Values :
               Count(values_of(key, reverse, items), v)
                   = Count(values_of(key, reverse, old_items), v)
                       + (IF v = arg[1] THEN 1 ELSE 0)

\* an add of a value that was contained once, to a queue with another
\* value of the same priority key
C12_Witness ==
    /\ op = "add"
    /\ Len(old_items) >= 2
    /\ Count(values_of(key, reverse, items), arg[1]) = 2
    /\ \E i \in DOMAIN old_items :
           /\ values_of(key, reverse, old_items)[i] # arg[1]
           /\ key_of(key, values_of(key, reverse, old_items)[i])
                  = key_of(key, arg[1])

\* C13: clear() leaves the queue empty with the key and reverse it had, and
\* values added to the cleared queue are ordered by that key and reverse:
\* iterating after any two adds yields them with priority keys in order.
C13_Clear ==
    /\ [][op' = "clear" =>
             /\ len(items') = 0
             /\ exc' = "None"
             /\ key' = key
             /\ reverse' = reverse]_vars
    /\ [](op = "clear" =>
             \A v, w \in Values :
                 SameElements(
                     iter_yields(key, reverse,
                         add_items(key, reverse,
                             add_items(key, reverse, items, v), w)),
                     <<v, w>>)
                 /\ ~KeyGreater(reverse,
                        key_of(key,
                            iter_yields(key, reverse,
                                add_items(key, reverse,
                                    add_items(key, reverse, items, v),
                                    w))[1]),
                        key_of(key,
                            iter_yields(key, reverse,
                                add_items(key, reverse,
                                    add_items(key, reverse, items, v),
                                    w))[2])))

\* a clear of a full queue that has a key and is reversed
C13_Witness ==
    /\ op = "clear"
    /\ Len(old_items) = MaxLen
    /\ key = "abs"
    /\ reverse
    /\ items = <<>>

\* C14: a queue constructed from values, a key and a reverse flag has as many
\* values as were given, duplicates kept, contains every given value, and has
\* the given key and the given reverse flag.
C14_Construction ==
    op = "__init__" =>
        /\ len(items) = Len(arg[1])
        /\ \A i \in DOMAIN arg[1] : contains(key, reverse, items, arg[1][i])
        /\ SameElements(values_of(key, reverse, items), arg[1])
        /\ key = arg[2]
        /\ reverse = arg[3]

\* a construction from values given out of order, one of them twice
C14_Witness ==
    /\ op = "__init__"
    /\ Len(arg[1]) = 3
    /\ arg[1][1] = arg[1][3]
    /\ arg[1][1] # arg[1][2]
    /\ values_of(key, reverse, items) # arg[1]

\* ------------------------------------------------ vocabulary of operands

\* every queue that can stand as a third operand next to qa and qb
OperandQueues ==
    {NewQueue("c", k, r, values) :
        values \in ListsUpTo(Values, MaxOperandLen),
        k \in Keys, r \in BOOLEAN}

\* the left and the right operand of the last evaluation
Left == Operand(lhs)
Right == Operand(rhs)

\* the last evaluation was `name` and it returned `result`
Returned(name, result) == bop = name /\ bret = <<result>>

\* C15: == is an equivalence relation over all queues, whatever their keys
\* and reverse flags: a queue equals itself, `A == B` returns what `B == A`
\* returns, and from A == B and B == C follows A == C.
C15_EqualityIsEquivalence ==
    bop = "__eq__" =>
        /\ lhs = rhs => bret = <<TRUE>>
        /\ eq_returns(Left, Left)
        /\ bret = <<eq_returns(Right, Left)>>
        /\ bret = <<TRUE>> /\ lhs # rhs =>
               \A c \in OperandQueues :
                   /\ eq_returns(Right, c) => eq_returns(Left, c)
                   /\ eq_returns(c, Left) => eq_returns(c, Right)

\* two different queues of different keys and different reverse flags, of two
\* values each, compared equal, and a third queue equals them
C15_Witness ==
    /\ Returned("__eq__", TRUE)
    /\ lhs # rhs
    /\ Left.key # Right.key
    /\ Left.reverse # Right.reverse
    /\ len(Left.items) = 2
    /\ \E c \in OperandQueues :
           /\ c.key = Left.key
           /\ c.reverse = Right.reverse
           /\ eq_returns(Right, c)

\* C16: among queues of the same key, whatever their reverse flags, <= is
\* reflexive, transitive, and antisymmetric up to equality: A <= B and
\* B <= A hold together exactly when A == B.
C16_LeIsPartialOrder ==
    bop = "__le__" /\ Left.key = Right.key =>
        /\ lhs = rhs => bret = <<TRUE>>
        /\ le_returns(Left, Left)
        /\ (bret = <<TRUE>> /\ le_returns(Right, Left))
               <=> eq_returns(Left, Right)
        /\ bret = <<TRUE>> /\ lhs # rhs =>
               \A c \in OperandQueues :
                   c.key = Left.key =>
                       /\ le_returns(Right, c) => le_returns(Left, c)
                       /\ le_returns(c, Left) => le_returns(c, Right)

\* a queue of one value is <= another queue of the same key, the opposite
\* reverse flag and two different values, which is not <= the first, and
\* a third queue of one value, of the same key, is <= the first
C16_Witness ==
    /\ Returned("__le__", TRUE)
    /\ lhs # rhs
    /\ Left.key = Right.key
    /\ Left.reverse # Right.reverse
    /\ len(Left.items) = 1
    /\ len(Right.items) = 2
    /\ iterate(Right)[1] # iterate(Right)[2]
    /\ ~le_returns(Right, Left)
    /\ \E c \in OperandQueues :
           /\ c.key = Left.key
           /\ c.reverse = Right.reverse
           /\ len(c.items) = 1
           /\ le_returns(c, Left)

\* the values a queue holds, in the order of its list
values(q) == values_of(q.key, q.reverse, q.items)

\* every value of xs is in ys, at least as many times as it is in xs
Included(xs, ys) == \A v \in Values : Count(xs, v) <= Count(ys, v)

\* two queues that order their values the same way
SameOrder(a, b) == a.key = b.key /\ a.reverse = b.reverse

\* C17 as stated: for every pair of queues, A <= B is true exactly when every
\* value of A is in B, counting multiplicity.
C17_LeIsInclusion ==
    bop = "__le__" => bret = <<Included(values(Left), values(Right))>>

\* C17, amended: whenever A <= B is true every value of A is in B, counting
\* multiplicity; and when every value of A is in B, counting multiplicity,
\* A <= B is true for queues of the same key and the same reverse flag, and
\* for a queue and itself.
C17_LeIsInclusionInSameOrder ==
    bop = "__le__" =>
        /\ bret = <<TRUE>> => Included(values(Left), values(Right))
        /\ (lhs = rhs \/ SameOrder(Left, Right))
               /\ Included(values(Left), values(Right))
           => bret = <<TRUE>>

\* a queue that holds a value twice was found not to be <= a queue of the
\* same size, key and reverse flag that holds this value once
C17_Witness ==
    /\ Returned("__le__", FALSE)
    /\ lhs # rhs
    /\ SameOrder(Left, Right)
    /\ len(Left.items) = 2
    /\ len(Right.items) = 2
    /\ Count(values(Left), values(Left)[1]) = 2
    /\ Count(values(Right), values(Left)[1]) = 1

\* C18: for every pair of queues A, B of the same key, whatever their
\* reverse flags, A & B <= A.
C18_AndIsInLeft ==
    bop = "__and__" /\ Left.key = Right.key => le_returns(qr, Left)

\* the intersection of two queues of two values each, of the same key and
\* different reverse flags, holds one value
C18_Witness ==
    /\ bop = "__and__"
    /\ lhs # rhs
    /\ Left.key = Right.key
    /\ Left.reverse # Right.reverse
    /\ len(Left.items) = 2
    /\ len(Right.items) = 2
    /\ len(qr.items) = 1

\* the key gives different priority keys to different values of the list
KeyTellsApart(k, list) ==
    \A i, j \in DOMAIN list :
        key_of(k, list[i]) = key_of(k, list[j]) => list[i] = list[j]

\* C19 as stated: for every pair of queues A, B, A & B <= B.
C19_AndIsInRight ==
    bop = "__and__" => le_returns(qr, Right)

\* C19, amended: for queues A, B of the same key and the same reverse flag,
\* whose key gives different priority keys to different values of A and B
\* (as no key does), A & B <= B.
C19_AndIsInRightOfSameOrder ==
    bop = "__and__"
    /\ SameOrder(Left, Right)
    /\ KeyTellsApart(Left.key, values(Left) \o values(Right))
    => le_returns(qr, Right)

\* the intersection of two queues of two values each, of the key abs and
\* the same reverse flag, holds one value, and no two of their values have
\* the same absolute value
C19_Witness ==
    /\ bop = "__and__"
    /\ lhs # rhs
    /\ SameOrder(Left, Right)
    /\ Left.key = "abs"
    /\ KeyTellsApart(Left.key, values(Left) \o values(Right))
    /\ len(Left.items) = 2
    /\ len(Right.items) = 2
    /\ len(qr.items) = 1

\* C20: intersection is idempotent: A & A == A for every queue A.
C20_AndIsIdempotent ==
    bop = "__and__" /\ lhs = rhs => eq_returns(qr, Left)

\* a reversed queue of the key abs that holds two different values of the
\* same absolute value was intersected with itself
C20_Witness ==
    /\ bop = "__and__"
    /\ lhs = rhs
    /\ Left.key = "abs"
    /\ Left.reverse
    /\ len(Left.items) = 2
    /\ values(Left)[1] # values(Left)[2]
    /\ abs(values(Left)[1]) = abs(values(Left)[2])
    /\ len(qr.items) = 2

\* C21: absorption: for every pair of queues A, B of the same key, whatever
\* their reverse flags, A & (A | B) == A.
C21_Absorption ==
    bop = "__or__" /\ Left.key = Right.key =>
        eq_returns(and_returns("s", Left, qr), Left)

\* the union of a queue that holds one value twice with a queue of the same
\* key and the other reverse flag that holds two other values
C21_Witness ==
    /\ bop = "__or__"
    /\ lhs # rhs
    /\ Left.key = Right.key
    /\ Left.reverse # Right.reverse
    /\ len(Left.items) = 2
    /\ values(Left)[1] = values(Left)[2]
    /\ len(Right.items) = 2
    /\ Count(values(Right), values(Left)[1]) = 0
    /\ len(and_returns("s", Left, qr).items) = 2

\* the smaller of two numbers
Min(m, n) == IF m <= n THEN m ELSE n

\* how many values of the list have the priority key p under the key k
KeyCount(k, list, p) ==
    Cardinality({i \in DOMAIN list : key_of(k, list[i]) = p})

\* the priority keys the key k gives to the values of the model
PriorityKeys(k) == {key_of(k, v) : v \in Values}

\* C22 as stated: A & B is the multiset intersection of the operands'
\* values: every value occurs in it as often as in the operand that holds it
\* less often.
C22_AndIsMultisetIntersection ==
    bop = "__and__" =>
        \A v \in Values :
            Count(values(qr), v)
                = Min(Count(values(Left), v), Count(values(Right), v))

\* C22, amended: A & B holds values of A, none more often than A does; of
\* every priority key under the key of A it holds as many values as the
\* operand that has fewer values of that priority key, so that it is no
\* longer than either operand and empty when one of them is; and it is the
\* multiset intersection when the key of A gives different priority keys to
\* different values of A and B.
C22_AndIsIntersectionByKey ==
    bop = "__and__" =>
        /\ Included(values(qr), values(Left))
        /\ \A p \in PriorityKeys(Left.key) :
               KeyCount(Left.key, values(qr), p)
                   = Min(KeyCount(Left.key, values(Left), p),
                         KeyCount(Left.key, values(Right), p))
        /\ len(qr.items) <= Min(len(Left.items), len(Right.items))
        /\ len(Left.items) = 0 \/ len(Right.items) = 0 => len(qr.items) = 0
        /\ KeyTellsApart(Left.key, values(Left) \o values(Right)) =>
               \A v \in Values :
                   Count(values(qr), v)
                       = Min(Count(values(Left), v), Count(values(Right), v))

\* the intersection of two queues of two values each holds a value that the
\* right operand does not hold, and holds one value less than the operands
C22_Witness ==
    /\ bop = "__and__"
    /\ lhs # rhs
    /\ len(Left.items) = 2
    /\ len(Right.items) = 2
    /\ len(qr.items) = 1
    /\ Count(values(Right), values(qr)[1]) = 0

\* C23: A | B keeps duplicates: every value occurs in it as often as in A
\* and in B together, so that len(A | B) == len(A) + len(B) and every value
\* of A and of B is contained in it; it has the key and reverse flag of A.
C23_OrAddsCounts ==
    bop = "__or__" =>
        /\ \A v \in Values :
               Count(values(qr), v)
                   = Count(values(Left), v) + Count(values(Right), v)
        /\ len(qr.items) = len(Left.items) + len(Right.items)
        /\ \A i \in DOMAIN values(Left) :
               contains(qr.key, qr.reverse, qr.items, values(Left)[i])
        /\ \A i \in DOMAIN values(Right) :
               contains(qr.key, qr.reverse, qr.items, values(Right)[i])
        /\ qr.key = Left.key
        /\ qr.reverse = Left.reverse
        /\ IsHeap(qr.key, qr.reverse, qr.items)

\* the union of two queues of two values each, of different keys and reverse
\* flags, that have a value in common
C23_Witness ==
    /\ bop = "__or__"
    /\ lhs # rhs
    /\ Left.key # Right.key
    /\ Left.reverse # Right.reverse
    /\ len(Left.items) = 2
    /\ len(Right.items) = 2
    /\ Count(values(Right), values(Left)[1]) = 1
    /\ Count(values(qr), values(Left)[1]) >= 2

\* C24: for every pair of queues A, B of the same key, whatever their
\* reverse flags, A <= A | B.
C24_LeftIsInOr ==
    bop = "__or__" /\ Left.key = Right.key => le_returns(Left, qr)

\* the union of two queues of two values each, of the same key and
\* different reverse flags, where the right one holds a value that comes
\* between the two values of the left one
C24_Witness ==
    /\ bop = "__or__"
    /\ lhs # rhs
    /\ Left.key = Right.key
    /\ Left.reverse # Right.reverse
    /\ len(Left.items) = 2
    /\ len(Right.items) = 2
    /\ iterate(qr)[1] = iterate(Left)[1]
    /\ iterate(qr)[2] # iterate(Left)[2]
    /\ iterate(qr)[2] # iterate(Left)[1]

\* C25 as stated: union is idempotent: A | A == A for every queue A.
C25_OrIsIdempotent ==
    bop = "__or__" /\ lhs = rhs => eq_returns(qr, Left)

\* C25, amended: A | A holds every value of A twice as often as A does, so
\* that len(A | A) == 2 * len(A) and A <= A | A; A | A == A holds only for
\* the empty queue.
C25_OrWithItselfDoubles ==
    bop = "__or__" /\ lhs = rhs =>
        /\ \A v \in Values :
               Count(values(qr), v) = 2 * Count(values(Left), v)
        /\ len(qr.items) = 2 * len(Left.items)
        /\ le_returns(Left, qr)
        /\ eq_returns(qr, Left) <=> len(Left.items) = 0

\* the union of a queue of two different values with itself iterates each
\* of them twice
C25_Witness ==
    /\ bop = "__or__"
    /\ lhs = rhs
    /\ len(Left.items) = 2
    /\ values(Left)[1] # values(Left)[2]
    /\ len(qr.items) = 4
    /\ iterate(qr)[1] = iterate(qr)[2]
    /\ iterate(qr)[3] = iterate(qr)[4]
    /\ ~eq_returns(qr, Left)

\* m - n, or 0 when that is negative
Monus(m, n) == IF m >= n THEN m - n ELSE 0

\* C26 as stated: A - B is the multiset subtraction of the operands' values:
\* every value occurs in it as often as it occurs more often in A than in B.
C26_SubIsMultisetSubtraction ==
    bop = "__sub__" =>
        \A v \in Values :
            Count(values(qr), v)
                = Monus(Count(values(Left), v), Count(values(Right), v))

\* C26, amended: A - B holds values of A, none more often than A does; of
\* every priority key under the key of A it holds as many values as A has
\* more values of that priority key than B; and it is the multiset
\* subtraction when the key of A gives different priority keys to different
\* values of A and B.
C26_SubIsSubtractionByKey ==
    bop = "__sub__" =>
        /\ Included(values(qr), values(Left))
        /\ \A p \in PriorityKeys(Left.key) :
               KeyCount(Left.key, values(qr), p)
                   = Monus(KeyCount(Left.key, values(Left), p),
                           KeyCount(Left.key, values(Right), p))
        /\ KeyTellsApart(Left.key, values(Left) \o values(Right)) =>
               \A v \in Values :
                   Count(values(qr), v)
                       = Monus(Count(values(Left), v),
                               Count(values(Right), v))

\* the subtraction of two queues of two values each has dropped a value of
\* the left operand that the right operand does not hold
C26_Witness ==
    /\ bop = "__sub__"
    /\ lhs # rhs
    /\ len(Left.items) = 2
    /\ len(Right.items) = 2
    /\ len(qr.items) = 1
    /\ \E i \in DOMAIN values(Left) :
           /\ Count(values(Right), values(Left)[i]) = 0
           /\ Count(values(qr), values(Left)[i]) = 0

\* the queue the last operator returned: an operand itself when the result
\* carries its identity
Result ==
    IF qr.id = "a" THEN qa ELSE IF qr.id = "b" THEN qb ELSE qr

\* C27: symmetric difference is self-inverse: A ^ A is empty for every queue
\* A, empty or not.
C27_XorWithItselfIsEmpty ==
    bop = "__xor__" /\ lhs = rhs => len(Result.items) = 0

\* a queue of the key abs that holds two different values of the same
\* absolute value was combined with itself, and a new queue was returned
C27_Witness ==
    /\ bop = "__xor__"
    /\ lhs = rhs
    /\ Left.key = "abs"
    /\ len(Left.items) = 2
    /\ values(Left)[1] # values(Left)[2]
    /\ qr.id = "r"
    /\ len(qr.items) = 0

\* (A - B) | (B - A) of the operands of the last operator
UnionOfSubtractions ==
    or_returns("u", sub_returns("l", Left, Right),
               sub_returns("m", Right, Left))

\* C28 as stated: for every pair of queues, empty ones included, A ^ B has
\* the key and reverse flag of (A - B) | (B - A) and is == to it.
C28_XorIsUnionOfSubtractions ==
    bop = "__xor__" =>
        /\ eq_returns(Result, UnionOfSubtractions)
        /\ Result.key = UnionOfSubtractions.key
        /\ Result.reverse = UnionOfSubtractions.reverse

\* C28, amended: for every pair of queues A ^ B holds the values of
\* (A - B) | (B - A), counting multiplicity; when both are non-empty, or of
\* the same key and reverse flag, A ^ B == (A - B) | (B - A); when both are
\* non-empty it has the key and reverse flag of A; when A is empty, B empty
\* or not, A ^ B is == B and has the key and reverse flag of B; when B is
\* empty A ^ B is == A, and has the key and reverse flag of A if A is not
\* empty.
C28_XorIsUnionOfSubtractionsOrOperand ==
    bop = "__xor__" =>
        /\ SameElements(values(Result), values(UnionOfSubtractions))
        /\ xor_subtracts(Left, Right) \/ SameOrder(Left, Right) =>
               eq_returns(Result, UnionOfSubtractions)
        /\ xor_subtracts(Left, Right) =>
               /\ Result.key = Left.key
               /\ Result.reverse = Left.reverse
        /\ len(Left.items) = 0 =>
               /\ eq_returns(Result, Right)
               /\ Result.key = Right.key
               /\ Result.reverse = Right.reverse
        /\ len(Right.items) = 0 => eq_returns(Result, Left)
        /\ len(Left.items) # 0 /\ len(Right.items) = 0 =>
               /\ Result.key = Left.key
               /\ Result.reverse = Left.reverse

\* an empty queue was combined with a queue of the other reverse flag that
\* holds two different values: the result iterates as that queue does, and
\* not as (A - B) | (B - A) does
C28_Witness ==
    /\ bop = "__xor__"
    /\ lhs # rhs
    /\ len(Left.items) = 0
    /\ len(Right.items) = 2
    /\ Left.reverse # Right.reverse
    /\ iterate(Result) = iterate(Right)
    /\ iterate(Result) # iterate(UnionOfSubtractions)
    /\ ~eq_returns(Result, UnionOfSubtractions)

\* C29 as stated: each of &, |, -, ^ returns a queue that is neither of the
\* operands and has the key and reverse flag of the left operand, for every
\* pair of operands, empty ones included.
C29_OperatorsReturnNewQueue ==
    bop \in {"__and__", "__or__", "__sub__", "__xor__"} =>
        /\ qr.id # lhs
        /\ qr.id # rhs
        /\ Result.key = Left.key
        /\ Result.reverse = Left.reverse

\* an operand is as it was: the same values as often, the same length, key
\* and reverse flag, and its list is a heap
LeftAlone(q, before) ==
    /\ SameElements(values(q), values(before))
    /\ len(q.items) = len(before.items)
    /\ q.key = before.key
    /\ q.reverse = before.reverse
    /\ IsHeap(q.key, q.reverse, q.items)

\* C30: the operators &, |, -, ^, the comparisons ==, <=, <, >=, > and
\* isdisjoint leave both operands with the values, length, key and reverse
\* flag they had, and with a list that is a heap.
C30_OperandsAreLeftAlone ==
    bop \in {"__and__", "__or__", "__sub__", "__xor__", "__eq__", "__le__",
             "__lt__", "__ge__", "__gt__", "isdisjoint"} =>
        /\ LeftAlone(qa, pa)
        /\ LeftAlone(qb, pb)

\* a comparison has put the list of its right operand, a queue of three
\* values, into another order
C30_Witness ==
    /\ bop = "__le__"
    /\ lhs = "b"
    /\ rhs = "a"
    /\ len(qa.items) = 3
    /\ qa.items # pa.items
    /\ len(qb.items) = 1

\* the two lists have no value in common
NoCommonValue(xs, ys) ==
    \A v \in Values : Count(xs, v) = 0 \/ Count(ys, v) = 0

\* C33 as stated: for every pair of queues of the same key, A.isdisjoint(B)
\* is true exactly when A & B is empty; it returns what B.isdisjoint(A)
\* returns, true when A is empty, and false when A and B are non-empty and
\* A <= B.
C33_IsDisjointIsEmptyAnd ==
    bop = "isdisjoint" /\ Left.key = Right.key =>
        /\ bret = <<len(and_returns("i", Left, Right).items) = 0>>
        /\ bret = <<isdisjoint_returns(Right, Left)>>
        /\ len(Left.items) = 0 => bret = <<TRUE>>
        /\ /\ len(Left.items) # 0
           /\ len(Right.items) # 0
           /\ le_returns(Left, Right)
           => bret = <<FALSE>>

\* C33, amended: for every pair of queues, A.isdisjoint(B) is true exactly
\* when no value of A is equal to a value of B; it returns what
\* B.isdisjoint(A) returns, true when A is empty, and false when A and B are
\* non-empty and A <= B; it is true exactly when A & B is empty if the
\* queues have the same key and that key gives different priority keys to
\* different values of A and B.
C33_IsDisjointIsNoCommonValue ==
    bop = "isdisjoint" =>
        /\ bret = <<NoCommonValue(values(Left), values(Right))>>
        /\ bret = <<isdisjoint_returns(Right, Left)>>
        /\ len(Left.items) = 0 => bret = <<TRUE>>
        /\ /\ len(Left.items) # 0
           /\ len(Right.items) # 0
           /\ le_returns(Left, Right)
           => bret = <<FALSE>>
        /\ /\ Left.key = Right.key
           /\ KeyTellsApart(Left.key, values(Left) \o values(Right))
           => bret = <<len(and_returns("i", Left, Right).items) = 0>>

\* two queues of the key abs that hold different values of the same absolute
\* value are disjoint, and their intersection is not empty
C33_Witness ==
    /\ Returned("isdisjoint", TRUE)
    /\ lhs # rhs
    /\ Left.key = "abs"
    /\ Right.key = "abs"
    /\ len(Left.items) # 0
    /\ len(and_returns("i", Left, Right).items) # 0

\* the value of the item at a position of the queue's list
ValueAt(i) == item_to_value(key, reverse, items[i])

\* the priority key of the value at a position of the queue's list
KeyAt(i) == key_of(key, ValueAt(i))

\* C35 as stated: the item order depends on the priority key only: item a is
\* less than item b iff the priority key of a is less than that of b, or
\* greater with the reverse flag, the priority key being the value itself
\* without a key; items of equal priority keys are never ordered by their
\* values.
C35_ItemOrderIsKeyOrder ==
    \A i, j \in DOMAIN items :
        item_lt(key, reverse, items[i], items[j])
            <=> IF reverse THEN KeyAt(i) > KeyAt(j) ELSE KeyAt(i) < KeyAt(j)

\* C35, amended: item a is less than item b iff the pair (priority key,
\* value) of a is less than that of b in lexicographic order, or greater with
\* the reverse flag: the priority keys decide when they differ, and items of
\* equal priority keys are ordered by their values; without a key this is
\* the order of the values.
C35_ItemOrderIsKeyThenValueOrder ==
    \A i, j \in DOMAIN items :
        /\ item_lt(key, reverse, items[i], items[j])
               <=> IF reverse
                   THEN \/ KeyAt(i) > KeyAt(j)
                        \/ KeyAt(i) = KeyAt(j) /\ ValueAt(i) > ValueAt(j)
                   ELSE \/ KeyAt(i) < KeyAt(j)
                        \/ KeyAt(i) = KeyAt(j) /\ ValueAt(i) < ValueAt(j)
        /\ key = "None" =>
               (item_lt(key, reverse, items[i], items[j])
                    <=> IF reverse THEN ValueAt(i) > ValueAt(j)
                                   ELSE ValueAt(i) < ValueAt(j))

\* a queue of the key abs was iterated and yielded two values of the same
\* absolute value, the lesser value first
C35_Witness ==
    /\ op = "__iter__"
    /\ key = "abs"
    /\ ~reverse
    /\ Len(ret) = 2
    /\ abs(ret[1]) = abs(ret[2])
    /\ ret[1] < ret[2]
    /\ item_lt(key, reverse, items[1], items[2])

\* the operands of the last evaluation as they were before it
LeftBefore == IF lhs = "a" THEN pa ELSE pb
RightBefore == IF rhs = "a" THEN pa ELSE pb

\* the values of the right operand sorted anew by the key and reverse flag of
\* the left one, as the operators do when the keys differ
RightSortedAnew ==
    sorted_values(LeftBefore.key, LeftBefore.reverse, values(RightBefore))

\* C36: when both queues have the same key, A & B and A - B, which take the
\* values of B as iterating B yields them (back to front when the reverse
\* flags differ), return what they would return from the values of B sorted
\* anew by the key and reverse flag of A.
C36_SortedSequenceIsReused ==
    /\ bop = "__and__" /\ LeftBefore.key = RightBefore.key =>
           qr = NewQueue("r", LeftBefore.key, LeftBefore.reverse,
                         intersect_sorted(LeftBefore.key, LeftBefore.reverse,
                                          iterate(LeftBefore),
                                          RightSortedAnew))
    /\ bop = "__sub__" /\ LeftBefore.key = RightBefore.key =>
           qr = NewQueue("r", LeftBefore.key, LeftBefore.reverse,
                         subtract_sorted(LeftBefore.key, LeftBefore.reverse,
                                         iterate(LeftBefore),
                                         RightSortedAnew))

\* a queue of one value was intersected with a queue of the same key abs
\* whose values come in another order when iterated than when sorted anew,
\* and the value was found in it
C36_Witness ==
    /\ bop = "__and__"
    /\ lhs = "b"
    /\ rhs = "a"
    /\ LeftBefore.key = "abs"
    /\ RightBefore.key = "abs"
    /\ other_values(LeftBefore, RightBefore) # RightSortedAnew
    /\ len(qr.items) = 1

\* C38: two distinct queues A and B compare equal iff iterating A and
\* iterating B yield the same sequence, of the same length and equal element
\* by element, whatever their keys and reverse flags; so two queues that hold
\* the same values as often are equal only when their sorted sequences
\* coincide.
C38_EqualityIsSameIteration ==
    bop = "__eq__" /\ lhs # rhs =>
        /\ bret = <<iterate(Left) = iterate(Right)>>
        /\ bret = <<TRUE>> =>
               /\ len(Left.items) = len(Right.items)
               /\ \A i \in DOMAIN iterate(Left) :
                      iterate(Left)[i] = iterate(Right)[i]

\* two queues of different reverse flags that hold the same two different
\* values were compared and are not equal
C38_Witness ==
    /\ Returned("__eq__", FALSE)
    /\ lhs # rhs
    /\ Left.key = Right.key
    /\ Left.reverse # Right.reverse
    /\ len(Left.items) = 2
    /\ SameElements(values(Left), values(Right))
    /\ iterate(Left) = backwards(iterate(Right))

\* A & B and A - B of the operands of the last operator
Intersection == and_returns("i", Left, Right)
Subtraction == sub_returns("s", Left, Right)

\* the two queues share out the values of the third: together they hold each
\* of its values as often as it does, and their union is equal to it
Partition(first, second, whole) ==
    /\ len(first.items) + len(second.items) = len(whole.items)
    /\ SameElements(values(first) \o values(second), values(whole))
    /\ eq_returns(or_returns("u", first, second), whole)

\* C39: intersection and difference partition the left operand: for every
\* pair of queues A, B each element of A is in exactly one of A & B and
\* A - B, so that len(A & B) + len(A - B) == len(A) and
\* (A & B) | (A - B) == A.
C39_AndAndSubPartitionLeft ==
    /\ bop = "__and__" => Partition(qr, Subtraction, Left)
    /\ bop = "__sub__" => Partition(Intersection, qr, Left)

\* a queue of two values was intersected with another queue of another
\* reverse flag: the intersection and the difference hold one of its values
\* each
C39_Witness ==
    /\ bop = "__and__"
    /\ lhs # rhs
    /\ Left.reverse # Right.reverse
    /\ len(Left.items) = 2
    /\ len(qr.items) = 1
    /\ len(Subtraction.items) = 1
    /\ values(qr) # values(Subtraction)

\* what pop() returns call after call until the queue is empty
RECURSIVE PoppedUntilEmpty(_, _, _)
PoppedUntilEmpty(k, rev, its) ==
    IF its = <<>> THEN <<>>
    ELSE pop_returns(k, rev, its)
         \o PoppedUntilEmpty(k, rev, pop_items(k, rev, its))

\* C40: from any reachable state, pop() called until the queue is empty
\* returns the sequence that iterating the queue in that state yields: each
\* pop() returns the first value of that sequence and leaves a queue that
\* iterates as the rest of it; pop() on the empty queue raises the error of
\* an empty queue and returns nothing.
C40_PopsAreIteration ==
    /\ PoppedUntilEmpty(key, reverse, items) = iter_yields(key, reverse, items)
    /\ op = "pop" /\ old_items # <<>> =>
           /\ exc = "None"
           /\ ret = <<iter_yields(key, reverse, old_items)[1]>>
           /\ iter_yields(key, reverse, items)
                  = Tail(iter_yields(key, reverse, old_items))
    /\ op = "pop" /\ old_items = <<>> =>
           /\ exc # "None"
           /\ exc = pop_raises(<<>>)
           /\ ret = <<>>
           /\ items = <<>>

\* a second pop in a row has taken the last value out of a queue of the key
\* abs, which held two values of the same absolute value before it
C40_Witness ==
    /\ op = "pop"
    /\ prev_op = "pop"
    /\ key = "abs"
    /\ Len(old_items) = 2
    /\ Len(items) = 1
    /\ abs(ret[1]) = abs(values_of(key, reverse, items)[1])
    /\ ret[1] # values_of(key, reverse, items)[1]

\* ------------------------------------------- vocabulary of the queue objects

\* an object as it was before the last call
Before(x) == IF x = "a" THEN pa ELSE pb

\* the in-place operators and the calls that change a queue
InPlaceOperators == {"__iand__", "__ior__", "__isub__", "__ixor__"}
Mutators == {"add", "remove", "discard", "pop", "clear"}

\* the object was a queue whose list held items of its own making
WasSound(x) == SoundItems(Before(x).key, Before(x).reverse, Before(x).items)

\* the queue that the operator of the last in-place operator returns on the
\* objects as they were
OperatorReturned ==
    IF call.name = "__iand__"
    THEN and_returns("r", Native(Before(call.self)),
                     Native(Before(call.other)))
    ELSE IF call.name = "__ior__"
    THEN or_returns("r", Native(Before(call.self)),
                    Native(Before(call.other)))
    ELSE IF call.name = "__isub__"
    THEN sub_returns("r", Native(Before(call.self)),
                     Native(Before(call.other)))
    ELSE xor_returns("r", Native(Before(call.self)),
                     Native(Before(call.other)))

\* C31 as stated: after a op= b with op one of &, |, -, ^, for every pair of
\* queues, empty ones and ones of different keys or reverse flags included,
\* a has the key and reverse flag it had, its list holds items of its own and
\* is a heap under its item order, a holds the values that a op b returns
\* and iterates as a queue of its key and reverse flag that holds them, and
\* b holds what it held.
C31_InPlaceIsOperator ==
    /\ call.name \in InPlaceOperators
    /\ WasSound(call.self)
    /\ WasSound(call.other)
    =>
        /\ call.raised = "None"
        /\ objects[call.self].key = Before(call.self).key
        /\ objects[call.self].reverse = Before(call.self).reverse
        /\ Sound(call.self)
        /\ IsHeap(Queue(call.self).key, Queue(call.self).reverse,
                  Native(Queue(call.self)).items)
        /\ SameElements(values(Native(Queue(call.self))),
                        values(OperatorReturned))
        /\ iterate(Native(Queue(call.self)))
               = iterate(NewQueue("e", Queue(call.self).key,
                                  Queue(call.self).reverse,
                                  values(OperatorReturned)))
        /\ call.other # call.self =>
               SameElements(values(Native(Queue(call.other))),
                            values(Native(Before(call.other))))

\* C32 as stated: after the in-place operators, add, remove, discard, pop or
\* clear called on one queue leaves the list of every other queue as it
\* was, in length and in contents.
C32_NoOtherQueueChanges ==
    call.name \in Mutators =>
        \A y \in Names \ {call.self} :
            Present(y) =>
                /\ len(Queue(y).items) = len(Before(y).items)
                /\ Queue(y).items = Before(y).items

\* C34 as stated: copy.copy(queue) is another object of the same key and
\* reverse flag whose _items is the very list of the original; compared with
\* the original it is equal, and after that comparison its _items is still
\* the very list of the original.
C34_ShallowCopySharesList ==
    /\ call.name = "__copy__" =>
           /\ call.other # call.self
           /\ objects[call.other].key = objects[call.self].key
           /\ objects[call.other].reverse = objects[call.self].reverse
           /\ objects[call.other].items = objects[call.self].items
    /\ call.name = "__eq__" /\ call.self # call.other /\ call.shared =>
           /\ call.answered = <<TRUE>>
           /\ objects[call.other].items = objects[call.self].items

\* the queue as it was when iter(queue) was called
IteratedQueue ==
    [id |-> iterator.of, key |-> objects[iterator.of].key,
     reverse |-> objects[iterator.of].reverse, items |-> iterated.contents]

\* the values that the iterator has yielded
Yielded == [i \in DOMAIN iterated.yielded |-> iterated.yielded[i].value]

\* C37: an iterator of a queue yields the values that the queue held when
\* the iterator was made, in sorted order: every next yields the next value
\* of that sequence, and StopIteration comes after all of it, whatever add,
\* remove, discard, pop or clear do to the queue between making the iterator
\* and its end.
C37_IteratorYieldsSnapshot ==
    LET yields(so_far, snapshot) ==
            /\ \A i \in DOMAIN iterated.yielded :
                   type_of(iterated.yielded[i]) = "int"
            /\ Len(so_far) = iterator.index
            /\ Len(so_far) <= Len(iterated.contents)
            /\ so_far = SubSeq(snapshot, 1, Len(so_far))
            /\ \A i, j \in DOMAIN so_far :
                   i < j => ~KeyGreater(IteratedQueue.reverse,
                                        key_of(IteratedQueue.key, so_far[i]),
                                        key_of(IteratedQueue.key, so_far[j]))
            /\ iterated.stopped =>
                   /\ so_far = snapshot
                   /\ SameElements(so_far, values(Native(IteratedQueue)))
    IN /\ iterator.of # "None"
       /\ SoundItems(IteratedQueue.key, IteratedQueue.reverse,
                     IteratedQueue.items)
       =>
           yields(Yielded, iterate(Native(IteratedQueue)))

\* the iterator has yielded the second of two values of different keys from
\* a queue that was emptied after the iterator was made
C37_Witness ==
    /\ call.name = "__next__"
    /\ call.raised = "None"
    /\ Len(Yielded) = 2
    /\ key_of(IteratedQueue.key, Yielded[1])
           # key_of(IteratedQueue.key, Yielded[2])
    /\ call.returned = <<iterated.yielded[2]>>
    /\ len(Queue(iterator.of).items) = 0

====
